---------------------------- MODULE Spec2Model ----------------------------
(***************************************************************************)
(* Budget ingestion pipeline of server/src/services/dataService.ts and the *)
(* summary route of server/src/routes/budgetRoutes.ts.                     *)
(*                                                                         *)
(* Texts are TLA+ strings handled character by character (Len, SubSeq,     *)
(* \o), so that parsing, lower-casing and substring search are computed as *)
(* the code computes them.  Numbers are exact decimals [m, e] standing for *)
(* m * 10^e, kept normalised (m has no trailing zero), with the extra      *)
(* values NaN, Infinity and -Infinity of the JavaScript number type.       *)
(* Binary rounding of IEEE doubles is not modelled.                        *)
(***************************************************************************)
EXTENDS Integers, Sequences, FiniteSets, TLC

VARIABLES
    pc,             \* where the summary request (or a function harness) stands
    reqYear,        \* the year asked for (parseInt(req.params.year))
    fileIdx,        \* index of the file name or URL candidate tried next, 0 outside the loops
    yearColumnData, \* readLocalCSV: items gathered from ingresos.csv / gastos.csv
    localData,      \* fetchHaciendaCSV: what readLocalCSV returned
    csvData,        \* fetchBudgetData: what fetchHaciendaCSV returned
    normalized,     \* fetchBudgetData: what normalizeCSVData returned
    realData,       \* the route: what fetchBudgetData returned
    escaped,        \* the outermost handler an exception travelled to
    caught,         \* the functions one of whose own catch blocks has run
    looked,         \* readLocalCSV: the local file names tried so far, in order
    requested,      \* fetchHaciendaCSV: the file names requested from the network, in order
    withRecords,    \* the files tried that parsed into at least one record
    parsedBy,       \* the header lines of the tables given to each of the two parsers
    response,       \* the HTTP response sent
    fn,             \* harness only: which function is exercised
    input,          \* harness only: the argument drawn in Init
    output          \* harness only: the value the function returned

requestVars == <<reqYear, fileIdx, yearColumnData, localData, csvData, normalized,
                 realData, escaped, caught, looked, requested, withRecords, parsedBy,
                 response>>

\* which files the request has tried
probeVars == <<looked, requested, withRecords, parsedBy>>

harnessVars == <<fn, input, output>>

vars == <<pc, requestVars, harnessVars>>

----------------------------------------------------------------------------
(* Bounds of the model *)

\* longest text given to parseAmount by the parseAmount harness
MaxLen == 5

\* most data lines of a CSV file or download
MaxRecords == 2

----------------------------------------------------------------------------
(* Characters and texts *)

Chr(s, i) == SubSeq(s, i, i)

\* the characters i..j of s, cut to the text (s.substring(i - 1, j))
Slice(s, i, j) ==
    IF i > j \/ i > Len(s) THEN ""
    ELSE SubSeq(s, i, IF j < Len(s) THEN j ELSE Len(s))

DigitChars == "0123456789"

IsDigit(c) == \E i \in 1..10 : Chr(DigitChars, i) = c

DigitVal(c) == (CHOOSE i \in 1..10 : Chr(DigitChars, i) = c) - 1

\* the letters of Spanish text: toLowerCase maps each capital to the letter at
\* the same place
UpperChars == "ABCDEFGHIJKLMNOPQRSTUVWXYZÁÉÍÓÚÜÑ"

LowerChars == "abcdefghijklmnopqrstuvwxyzáéíóúüñ"

LowerChar(c) ==
    IF \E i \in 1..Len(UpperChars) : Chr(UpperChars, i) = c
    THEN Chr(LowerChars, CHOOSE i \in 1..Len(UpperChars) : Chr(UpperChars, i) = c)
    ELSE c

RECURSIVE ToLowerCase(_)
ToLowerCase(s) ==
    IF Len(s) = 0 THEN "" ELSE LowerChar(Chr(s, 1)) \o ToLowerCase(Tail(s))

\* String.prototype.includes
Includes(s, k) ==
    \E i \in 1..(Len(s) - Len(k) + 1) : SubSeq(s, i, i + Len(k) - 1) = k

HasChar(s, c) == \E i \in 1..Len(s) : Chr(s, i) = c

\* s.replace(/[set]/g, '')
RECURSIVE RemoveChars(_, _)
RemoveChars(s, set) ==
    IF Len(s) = 0 THEN ""
    ELSE (IF Chr(s, 1) \in set THEN "" ELSE Chr(s, 1)) \o RemoveChars(Tail(s), set)

\* s.replace(c, d) with a string pattern: the first occurrence only
RECURSIVE ReplaceFirst(_, _, _)
ReplaceFirst(s, c, d) ==
    IF Len(s) = 0 THEN ""
    ELSE IF Chr(s, 1) = c THEN d \o Tail(s)
    ELSE Chr(s, 1) \o ReplaceFirst(Tail(s), c, d)

\* s.lastIndexOf(c), 0-based, -1 when absent
LastIndexOf(s, c) ==
    IF HasChar(s, c)
    THEN (CHOOSE i \in 1..Len(s) :
            Chr(s, i) = c /\ \A j \in (i + 1)..Len(s) : Chr(s, j) # c) - 1
    ELSE -1

\* s.indexOf(c), 0-based, -1 when absent
IndexOf(s, c) ==
    IF HasChar(s, c)
    THEN (CHOOSE i \in 1..Len(s) :
            Chr(s, i) = c /\ \A j \in 1..(i - 1) : Chr(s, j) # c) - 1
    ELSE -1

CountChar(s, c) == Cardinality({i \in 1..Len(s) : Chr(s, i) = c})

WhiteSpace == {" ", "\t", "\n", "\r"}

RECURSIVE TrimStart(_)
TrimStart(s) ==
    IF Len(s) > 0 /\ Chr(s, 1) \in WhiteSpace THEN TrimStart(Tail(s)) ELSE s

RECURSIVE TrimEnd(_)
TrimEnd(s) ==
    IF Len(s) > 0 /\ Chr(s, Len(s)) \in WhiteSpace
    THEN TrimEnd(SubSeq(s, 1, Len(s) - 1)) ELSE s

Trim(s) == TrimEnd(TrimStart(s))

\* number of consecutive digits of s from position i on
RECURSIVE DigitRun(_, _)
DigitRun(s, i) ==
    IF i <= Len(s) /\ IsDigit(Chr(s, i)) THEN 1 + DigitRun(s, i + 1) ELSE 0

RECURSIVE StrToNat(_)
StrToNat(s) ==
    IF Len(s) = 0 THEN 0
    ELSE 10 * StrToNat(SubSeq(s, 1, Len(s) - 1)) + DigitVal(Chr(s, Len(s)))

----------------------------------------------------------------------------
(* Numbers *)

\* k: "num" for m * 10^e, "inf" for the infinity of the sign of m, "nan"
Num(m, e) == [k |-> "num", m |-> m, e |-> e]

NaN == [k |-> "nan", m |-> 0, e |-> 0]

Infinity == [k |-> "inf", m |-> 1, e |-> 0]

NegInfinity == [k |-> "inf", m |-> -1, e |-> 0]

IsFinite(v) == v.k = "num"

RECURSIVE Norm(_, _)
Norm(m, e) ==
    IF m = 0 THEN Num(0, 0)
    ELSE IF m % 10 = 0 THEN Norm(m \div 10, e + 1)
    ELSE Num(m, e)

Zero == Norm(0, 0)

RECURSIVE Pow10(_)
Pow10(n) == IF n = 0 THEN 1 ELSE 10 * Pow10(n - 1)

MinOf(a, b) == IF a < b THEN a ELSE b

\* a + b
Add(a, b) ==
    IF a = NaN \/ b = NaN THEN NaN
    ELSE IF ~IsFinite(a) THEN (IF ~IsFinite(b) /\ b # a THEN NaN ELSE a)
    ELSE IF ~IsFinite(b) THEN b
    ELSE IF a.m = 0 THEN b
    ELSE IF b.m = 0 THEN a
    ELSE LET e == MinOf(a.e, b.e)
         IN  Norm(a.m * Pow10(a.e - e) + b.m * Pow10(b.e - e), e)

\* -a
Neg(a) == [a EXCEPT !.m = 0 - a.m]

\* a - b
Sub(a, b) == Add(a, Neg(b))

\* a * 10^k
Scale10(a, k) == IF IsFinite(a) THEN Norm(a.m, a.e + k) ELSE a

\* a <= 0 (false for NaN, as every comparison with NaN)
LeZero(a) == a # NaN /\ a.m <= 0

\* a > 0
GtZero(a) == a # NaN /\ a.m > 0

\* The global parseFloat: leading white space, a sign, digits, a fraction, an
\* exponent; the longest such prefix is the value and what follows it is
\* ignored.  The steps pass on what they have read: u is the text after the
\* sign, ni and nf the numbers of integer and fraction digits, p the place
\* after the mantissa.

\* the exponent read at p: "e" or "E", a sign, digits; 0 when there is none
ExponentAt(u, p, q) ==
    IF p <= Len(u) /\ Chr(u, p) \in {"e", "E"} /\ DigitRun(u, q) > 0
    THEN IF q = p + 2 /\ Chr(u, p + 1) = "-"
         THEN 0 - StrToNat(Slice(u, q, q + DigitRun(u, q) - 1))
         ELSE StrToNat(Slice(u, q, q + DigitRun(u, q) - 1))
    ELSE 0

ParseMantissa(u, neg, ni, nf, p) ==
    IF ni + nf = 0 THEN NaN
    ELSE Norm((IF neg THEN -1 ELSE 1)
                * StrToNat(Slice(u, 1, ni) \o Slice(u, ni + 2, ni + 1 + nf)),
              ExponentAt(u, p, IF p + 1 <= Len(u) /\ Chr(u, p + 1) \in {"+", "-"}
                               THEN p + 2 ELSE p + 1) - nf)

ParseFraction(u, neg, ni, nf) ==
    ParseMantissa(u, neg, ni, nf,
                  IF ni + 1 <= Len(u) /\ Chr(u, ni + 1) = "." THEN ni + nf + 2 ELSE ni + 1)

ParseDigits(u, neg, ni) ==
    ParseFraction(u, neg, ni,
                  IF ni + 1 <= Len(u) /\ Chr(u, ni + 1) = "." THEN DigitRun(u, ni + 2)
                  ELSE 0)

ParseUnsigned(u, neg) ==
    IF Slice(u, 1, 8) = "Infinity" THEN (IF neg THEN NegInfinity ELSE Infinity)
    ELSE ParseDigits(u, neg, DigitRun(u, 1))

ParseSigned(t) ==
    ParseUnsigned(IF Slice(t, 1, 1) \in {"+", "-"} THEN Tail(t) ELSE t,
                  Slice(t, 1, 1) = "-")

ParseFloat(s) == ParseSigned(TrimStart(s))

----------------------------------------------------------------------------
(* parseAmount *)

CurrencyAndSpace == {"€", "$", "£", "¥"} \cup WhiteSpace

\* a variant taking out the first period only, where the code takes out all
ParseAmount_FirstDotOnly(amountStr) ==
    IF amountStr = "" THEN Zero
    ELSE
    LET c0 == RemoveChars(amountStr, CurrencyAndSpace)
        cleaned ==
            IF HasChar(c0, ",") /\ HasChar(c0, ".")
            THEN IF LastIndexOf(c0, ",") > LastIndexOf(c0, ".")
                 THEN ReplaceFirst(ReplaceFirst(c0, ".", ""), ",", ".")
                 ELSE RemoveChars(c0, {","})
            ELSE IF HasChar(c0, ",")
            THEN IF CountChar(c0, ",") + 1 = 2
                    /\ Len(c0) - (IndexOf(c0, ",") + 1) <= 2
                 THEN ReplaceFirst(c0, ",", ".")
                 ELSE RemoveChars(c0, {","})
            ELSE RemoveChars(c0, {"."})
        amount == ParseFloat(cleaned)
    IN  IF amount = NaN THEN Zero ELSE amount

ParseAmount(amountStr) ==
    IF amountStr = "" THEN Zero
    ELSE
    LET c0 == RemoveChars(amountStr, CurrencyAndSpace)
        cleaned ==
            IF HasChar(c0, ",") /\ HasChar(c0, ".")
            THEN IF LastIndexOf(c0, ",") > LastIndexOf(c0, ".")
                 THEN ReplaceFirst(RemoveChars(c0, {"."}), ",", ".")
                 ELSE RemoveChars(c0, {","})
            ELSE IF HasChar(c0, ",")
            THEN \* parts = cleaned.split(','): parts.length is the number of commas
                 \* plus one, parts[1] the text after the only comma
                 IF CountChar(c0, ",") + 1 = 2
                    /\ Len(c0) - (IndexOf(c0, ",") + 1) <= 2
                 THEN ReplaceFirst(c0, ",", ".")
                 ELSE RemoveChars(c0, {","})
            ELSE RemoveChars(c0, {"."})
        amount == ParseFloat(cleaned)
    IN  IF amount = NaN THEN Zero ELSE amount

----------------------------------------------------------------------------
(* mapConceptToType *)

IncomeTypes ==
    {"personal_income_tax", "corporate_tax", "vat", "social_security_contributions",
     "autonomous_communities_taxes", "eu_funds", "other_revenues"}

SpendingTypes ==
    {"pensions", "social_security", "education", "healthcare", "defense",
     "infrastructure", "public_administration", "debt_interest", "other_spending"}

\* a variant asking for the vat keywords before the income tax keywords
MapConceptToType_VatBeforeIncomeTax(concept, category) ==
    LET conceptLower == ToLowerCase(concept)
        has(k) == Includes(conceptLower, k)
    IN  IF category = "income"
        THEN IF has("impuestos indirectos") \/ has("iva") THEN "vat"
             ELSE IF has("impuestos directos") \/ has("irpf") \/ has("renta")
               THEN "personal_income_tax"
             ELSE IF has("sociedades") \/ has("corporativo") THEN "corporate_tax"
             ELSE IF has("seguridad social") \/ has("cotizaciones")
               THEN "social_security_contributions"
             ELSE IF has("comunidad") \/ has("autónoma") \/ has("territorial")
               THEN "autonomous_communities_taxes"
             ELSE IF has("ue") \/ has("europa") \/ has("fondo europeo") THEN "eu_funds"
             ELSE "other_revenues"
        ELSE IF has("pension") THEN "pensions"
             ELSE IF has("seguridad social") \/ has("sanidad") \/ has("salud")
               THEN "social_security"
             ELSE IF has("educación") \/ has("educacion") THEN "education"
             ELSE IF has("defensa") \/ has("militar") THEN "defense"
             ELSE IF has("infraestructura") \/ has("obra pública") THEN "infrastructure"
             ELSE IF has("administración") \/ has("administracion")
                     \/ has("personal") \/ has("bienes y servicios")
               THEN "public_administration"
             ELSE IF has("interés") \/ has("interes") \/ has("deuda")
                     \/ has("gastos financieros")
               THEN "debt_interest"
             ELSE "other_spending"

\* a variant without the last ELSE of either cascade: no type when no rule matches
MapConceptToType_NoTypeForUnmatched(concept, category) ==
    LET conceptLower == ToLowerCase(concept)
        has(k) == Includes(conceptLower, k)
    IN  IF category = "income"
        THEN IF has("impuestos directos") \/ has("irpf") \/ has("renta")
               THEN "personal_income_tax"
             ELSE IF has("sociedades") \/ has("corporativo") THEN "corporate_tax"
             ELSE IF has("impuestos indirectos") \/ has("iva") THEN "vat"
             ELSE IF has("seguridad social") \/ has("cotizaciones")
               THEN "social_security_contributions"
             ELSE IF has("comunidad") \/ has("autónoma") \/ has("territorial")
               THEN "autonomous_communities_taxes"
             ELSE IF has("ue") \/ has("europa") \/ has("fondo europeo") THEN "eu_funds"
             ELSE ""
        ELSE IF has("pension") THEN "pensions"
             ELSE IF has("seguridad social") \/ has("sanidad") \/ has("salud")
               THEN "social_security"
             ELSE IF has("educación") \/ has("educacion") THEN "education"
             ELSE IF has("defensa") \/ has("militar") THEN "defense"
             ELSE IF has("infraestructura") \/ has("obra pública") THEN "infrastructure"
             ELSE IF has("administración") \/ has("administracion")
                     \/ has("personal") \/ has("bienes y servicios")
               THEN "public_administration"
             ELSE IF has("interés") \/ has("interes") \/ has("deuda")
                     \/ has("gastos financieros")
               THEN "debt_interest"
             ELSE ""

\* a variant with the healthcare rule before the social security rule
MapConceptToType_HealthcareFirst(concept, category) ==
    LET conceptLower == ToLowerCase(concept)
        has(k) == Includes(conceptLower, k)
    IN  IF category = "income"
        THEN IF has("impuestos directos") \/ has("irpf") \/ has("renta")
               THEN "personal_income_tax"
             ELSE IF has("sociedades") \/ has("corporativo") THEN "corporate_tax"
             ELSE IF has("impuestos indirectos") \/ has("iva") THEN "vat"
             ELSE IF has("seguridad social") \/ has("cotizaciones")
               THEN "social_security_contributions"
             ELSE IF has("comunidad") \/ has("autónoma") \/ has("territorial")
               THEN "autonomous_communities_taxes"
             ELSE IF has("ue") \/ has("europa") \/ has("fondo europeo") THEN "eu_funds"
             ELSE IF has("tasas") \/ has("precios") \/ has("transferencias")
                     \/ has("patrimoniales") \/ has("enajenación")
               THEN "other_revenues"
             ELSE "other_revenues"
        ELSE IF has("pension") THEN "pensions"
             ELSE IF has("sanidad") \/ has("salud") THEN "healthcare"
             ELSE IF has("seguridad social") \/ has("sanidad") \/ has("salud")
               THEN "social_security"
             ELSE IF has("educación") \/ has("educacion") THEN "education"
             ELSE IF has("defensa") \/ has("militar") THEN "defense"
             ELSE IF has("infraestructura") \/ has("infraestructuras")
                     \/ has("obra pública")
               THEN "infrastructure"
             ELSE IF has("administración") \/ has("administracion")
                     \/ has("personal") \/ has("bienes y servicios")
               THEN "public_administration"
             ELSE IF has("interés") \/ has("interes") \/ has("deuda")
                     \/ has("gastos financieros") \/ has("deuda pública")
               THEN "debt_interest"
             ELSE IF has("transferencias") \/ has("contingencia")
                     \/ has("inversiones") \/ has("desempleo")
                     \/ has("prestaciones") \/ has("servicios sociales")
               THEN "other_spending"
             ELSE "other_spending"

\* The cascade of the code, rule by rule and in its order; a `null` result does
\* not exist (every branch returns a type).
MapConceptToType(concept, category) ==
    LET conceptLower == ToLowerCase(concept)
        has(k) == Includes(conceptLower, k)
    IN  IF category = "income"
        THEN IF has("impuestos directos") \/ has("irpf") \/ has("renta")
               THEN "personal_income_tax"
             ELSE IF has("sociedades") \/ has("corporativo") THEN "corporate_tax"
             ELSE IF has("impuestos indirectos") \/ has("iva") THEN "vat"
             ELSE IF has("seguridad social") \/ has("cotizaciones")
               THEN "social_security_contributions"
             ELSE IF has("comunidad") \/ has("autónoma") \/ has("territorial")
               THEN "autonomous_communities_taxes"
             ELSE IF has("ue") \/ has("europa") \/ has("fondo europeo") THEN "eu_funds"
             ELSE IF has("tasas") \/ has("precios") \/ has("transferencias")
                     \/ has("patrimoniales") \/ has("enajenación")
               THEN "other_revenues"
             ELSE "other_revenues"
        ELSE IF has("pension") THEN "pensions"
             ELSE IF has("seguridad social") \/ has("sanidad") \/ has("salud")
               THEN "social_security"
             ELSE IF has("educación") \/ has("educacion") THEN "education"
             ELSE IF has("sanidad") \/ has("salud") THEN "healthcare"
             ELSE IF has("defensa") \/ has("militar") THEN "defense"
             ELSE IF has("infraestructura") \/ has("infraestructuras")
                     \/ has("obra pública")
               THEN "infrastructure"
             ELSE IF has("administración") \/ has("administracion")
                     \/ has("personal") \/ has("bienes y servicios")
               THEN "public_administration"
             ELSE IF has("interés") \/ has("interes") \/ has("deuda")
                     \/ has("gastos financieros") \/ has("deuda pública")
               THEN "debt_interest"
             ELSE IF has("transferencias") \/ has("contingencia")
                     \/ has("inversiones") \/ has("desempleo")
                     \/ has("prestaciones") \/ has("servicios sociales")
               THEN "other_spending"
             ELSE "other_spending"

----------------------------------------------------------------------------
(* Parsed CSV tables.  parse(text, {columns: true}) yields one object per   *)
(* data line, keyed by the header line: a table is its header and its rows, *)
(* each row holding one cell per header name.                               *)

Table(header, rows) == [header |-> header, rows |-> rows]

\* a property name that is an array index ("2016", not "2023-P" or "007")
IsIndexKey(k) ==
    /\ Len(k) > 0
    /\ Len(k) <= 9
    /\ DigitRun(k, 1) = Len(k)
    /\ (Len(k) = 1 \/ Chr(k, 1) # "0")

RECURSIVE SortAscending(_)
SortAscending(keys) ==
    IF keys = {} THEN <<>>
    ELSE LET least == CHOOSE k \in keys : \A o \in keys : StrToNat(k) <= StrToNat(o)
         IN  <<least>> \o SortAscending(keys \ {least})

\* Object.keys(record): the index-like names first, in ascending numeric
\* order, then the other names in the order of the header line
ObjectKeys(header) ==
    SortAscending({header[i] : i \in {j \in 1..Len(header) : IsIndexKey(header[j])}})
        \o SelectSeq(header, LAMBDA k : ~IsIndexKey(k))

\* String(record[col] || ''): the cell, '' for a name the record does not have
Cell(header, row, col) ==
    IF \E i \in 1..Len(header) : header[i] = col
    THEN row[CHOOSE i \in 1..Len(header) : header[i] = col]
    ELSE ""

\* array.find(pred), found being the elements that satisfy pred, in their
\* order: the first of them, "" for undefined
FirstOf(found) == IF found = <<>> THEN "" ELSE Head(found)

\* the concatenation of the sequences pushed[1], pushed[2], ...: what a forEach
\* has pushed, pushed[i] being what its turn i pushes
Pushed(pushed) ==
    LET upTo[i \in 0..Len(pushed)] == IF i = 0 THEN <<>> ELSE upTo[i - 1] \o pushed[i]
    IN  upTo[Len(pushed)]

----------------------------------------------------------------------------
(* processYearColumnsCSV *)

\* /^\d{4}/
StartsWithFourDigits(s) == DigitRun(s, 1) >= 4

\* /^\d{4}(-P)?$/
IsYearColumn(s) ==
    \/ Len(s) = 4 /\ DigitRun(s, 1) = 4
    \/ Len(s) = 6 /\ DigitRun(s, 1) = 4 /\ Slice(s, 5, 6) = "-P"

\* /^\d+\.?\d*$/
IsPurelyNumeric(s) ==
    LET ni == DigitRun(s, 1)
    IN  /\ ni >= 1
        /\ \/ ni = Len(s)
           \/ Chr(s, ni + 1) = "." /\ ni + 1 + DigitRun(s, ni + 2) = Len(s)

\* s.split('-')[0]
BeforeDash(s) == IF HasChar(s, "-") THEN Slice(s, 1, IndexOf(s, "-")) ELSE s

\* parseInt(s) of a text starting with digits; NaN is -1 here, no year being negative
ParseInt(s) == IF DigitRun(s, 1) = 0 THEN -1 ELSE StrToNat(Slice(s, 1, DigitRun(s, 1)))

RECURSIVE NatToString(_)
NatToString(n) ==
    IF n < 10 THEN Chr(DigitChars, n + 1)
    ELSE NatToString(n \div 10) \o Chr(DigitChars, (n % 10) + 1)

RECURSIVE Zeros(_)
Zeros(n) == IF n <= 0 THEN "" ELSE "0" \o Zeros(n - 1)

\* the digits of a number, k of them, with n of them before the point
PlaceDigits(digits, k, n) ==
    IF k <= n /\ n <= 21 THEN digits \o Zeros(n - k)
    ELSE IF 0 < n /\ n <= 21 THEN Slice(digits, 1, n) \o "." \o Slice(digits, n + 1, k)
    ELSE IF -6 < n /\ n <= 0 THEN "0." \o Zeros(0 - n) \o digits
    ELSE Slice(digits, 1, 1)
         \o (IF k > 1 THEN "." \o Slice(digits, 2, k) ELSE "")
         \o "e" \o (IF n - 1 < 0 THEN "-" \o NatToString(1 - n)
                    ELSE "+" \o NatToString(n - 1))

DigitsToString(digits, e) == PlaceDigits(digits, Len(digits), Len(digits) + e)

\* Number.prototype.toString, radix 10
NumberToString(v) ==
    IF v = NaN THEN "NaN"
    ELSE IF v = Infinity THEN "Infinity"
    ELSE IF v = NegInfinity THEN "-Infinity"
    ELSE IF v.m = 0 THEN "0"
    ELSE (IF v.m < 0 THEN "-" ELSE "")
         \o DigitsToString(NatToString(IF v.m < 0 THEN 0 - v.m ELSE v.m), v.e)

Item(year, category, type, amount, description) ==
    [year |-> year, category |-> category, type |-> type, amount |-> amount,
     description |-> description]

\* the column the concept is read from
YearConceptColumn(columns) ==
    IF StartsWithFourDigits(columns[1])
       /\ FirstOf(SelectSeq(columns, LAMBDA c : ~StartsWithFourDigits(c))) # ""
    THEN FirstOf(SelectSeq(columns, LAMBDA c : ~StartsWithFourDigits(c)))
    ELSE columns[1]

\* columns.slice(1).filter(col => /^\d{4}(-P)?$/.test(col))
YearColumnsOf(columns) == SelectSeq(Tail(columns), IsYearColumn)

\* mapConceptToType(concept, category) || 'other_' + ...
TypeOrDefault(mapped, category) ==
    IF mapped # "" THEN mapped
    ELSE "other_" \o (IF category = "income" THEN "revenues" ELSE "spending")

\* the last checks before the push, on the concept
YearItemChecked(year, category, amount, concept) ==
    IF concept = "" \/ IsPurelyNumeric(concept) \/ Len(concept) < 3 THEN <<>>
    ELSE IF StartsWithFourDigits(concept)
            \/ NumberToString(ParseFloat(concept)) = concept THEN <<>>
    ELSE <<Item(year, category, TypeOrDefault(MapConceptToType(concept, category), category),
                Scale10(amount, 6), concept)>>

\* amount is parseFloat of the cell, its currency signs and spaces removed
YearItemOfAmount(year, category, amount, concept) ==
    IF amount = NaN \/ LeZero(amount) THEN <<>>
    ELSE YearItemChecked(year, category, amount, concept)

YearItemOfCell(year, category, amountStr, concept) ==
    IF year = -1 THEN <<>>
    ELSE IF amountStr = "" THEN <<>>
    ELSE YearItemOfAmount(year, category,
                          ParseFloat(Trim(RemoveChars(amountStr, CurrencyAndSpace))),
                          concept)

\* the item pushed for one year column of one record, <<>> when none is.
\* The conceptId slug each item also carries is read by nothing and left out.
YearCellItems(header, record, concept, yearCol, category) ==
    YearItemOfCell(ParseInt(BeforeDash(yearCol)), category,
                   Trim(Cell(header, record, yearCol)), concept)

\* a variant looking for "total" in the concept as it is written
YearItemsOfConcept_TotalAsWritten(header, record, concept, conceptColumn, yearColumns, category) ==
    IF concept = ""
       \/ concept = conceptColumn
       \/ Includes(concept, "total")
       \/ IsPurelyNumeric(concept)
    THEN <<>>
    ELSE Pushed([i \in 1..Len(yearColumns) |->
                    YearCellItems(header, record, concept, yearColumns[i], category)])

\* the skip rules of a record
YearItemsOfConcept(header, record, concept, conceptColumn, yearColumns, category) ==
    IF concept = ""
       \/ concept = conceptColumn
       \/ Includes(ToLowerCase(concept), "total")
       \/ IsPurelyNumeric(concept)
    THEN <<>>
    ELSE Pushed([i \in 1..Len(yearColumns) |->
                    YearCellItems(header, record, concept, yearColumns[i], category)])

\* the items pushed for one record (the body of csvRecords.forEach)
YearRecordItems(header, record, conceptColumn, yearColumns, category) ==
    YearItemsOfConcept(header, record, Trim(Cell(header, record, conceptColumn)),
                       conceptColumn, yearColumns, category)

YearItemsOfColumns(csvRecords, columns, category) ==
    Pushed([i \in 1..Len(csvRecords.rows) |->
                YearRecordItems(csvRecords.header, csvRecords.rows[i],
                                YearConceptColumn(columns), YearColumnsOf(columns),
                                category)])

ProcessYearColumnsCSV(csvRecords, category) ==
    IF csvRecords.rows = <<>> THEN <<>>
    ELSE YearItemsOfColumns(csvRecords, ObjectKeys(csvRecords.header), category)

----------------------------------------------------------------------------
(* normalizeCSVData *)

AmountColumnNames ==
    {"importe", "amount", "cantidad", "valor", "total", "euros", "liquidado",
     "ejecutado", "presupuestado"}

ConceptColumnNames ==
    {"concepto", "concept", "descripcion", "description", "nombre", "name", "tipo",
     "denominacion", "capitulo"}

CategoryColumnNames ==
    {"tipo", "type", "categoria", "category", "clase", "clasificacion", "naturaleza"}

\* columns.find(col => names.includes(col.toLowerCase())), "" for undefined
FindNamed(columns, names) ==
    FirstOf(SelectSeq(columns, LAMBDA col : ToLowerCase(col) \in names))

\* value.match(/[\d.,]+/)
LooksNumeric(value) ==
    \E i \in 1..Len(value) : IsDigit(Chr(value, i)) \/ Chr(value, i) \in {".", ","}

\* the text the amount is parsed from
AmountText(header, columns, record, amountColumn) ==
    IF amountColumn # "" THEN Cell(header, record, amountColumn)
    ELSE Cell(header, record,
              FirstOf(SelectSeq(columns, LAMBDA col : LooksNumeric(Cell(header, record, col)))))

\* a variant inferring from the concept whether or not a category column
\* was found
CategoryOf_InferenceAlways(header, record, categoryColumn, concept) ==
    LET categoryValue == ToLowerCase(Cell(header, record, categoryColumn))
        conceptLower  == ToLowerCase(concept)
        fromColumn ==
            IF categoryColumn = "" THEN "spending"
            ELSE IF Includes(categoryValue, "ingreso") \/ Includes(categoryValue, "revenue")
                    \/ Includes(categoryValue, "income") \/ Includes(categoryValue, "i")
              THEN "income"
            ELSE "spending"
    IN  IF fromColumn = "spending"
           /\ (Includes(conceptLower, "ingreso") \/ Includes(conceptLower, "revenue")
               \/ Includes(conceptLower, "impuesto") \/ Includes(conceptLower, "tributo"))
        THEN "income"
        ELSE fromColumn

\* the category of one record
CategoryOf(header, record, categoryColumn, concept) ==
    LET categoryValue == ToLowerCase(Cell(header, record, categoryColumn))
        conceptLower  == ToLowerCase(concept)
        fromColumn ==
            IF categoryColumn = "" THEN "spending"
            ELSE IF Includes(categoryValue, "ingreso") \/ Includes(categoryValue, "revenue")
                    \/ Includes(categoryValue, "income") \/ Includes(categoryValue, "i")
              THEN "income"
            ELSE "spending"
    IN  IF fromColumn = "spending" /\ categoryColumn = ""
           /\ (Includes(conceptLower, "ingreso") \/ Includes(conceptLower, "revenue")
               \/ Includes(conceptLower, "impuesto") \/ Includes(conceptLower, "tributo"))
        THEN "income"
        ELSE fromColumn

\* a variant without the test amount <= 0
NormalizeRecord_KeepsNonPositive(header, columns, record, year) ==
    LET amountColumn   == FindNamed(columns, AmountColumnNames)
        conceptColumn  == FindNamed(columns, ConceptColumnNames)
        categoryColumn == FindNamed(columns, CategoryColumnNames)
        amount   == ParseAmount(AmountText(header, columns, record, amountColumn))
        concept  == IF conceptColumn # "" THEN Cell(header, record, conceptColumn) ELSE ""
        category == CategoryOf(header, record, categoryColumn, concept)
        type     == MapConceptToType(concept, category)
    IN  IF type # "" THEN <<Item(year, category, type, amount, concept)>> ELSE <<>>

\* the item pushed for one record (the body of csvRecords.forEach), <<>> when
\* the record is skipped
NormalizeRecord(header, columns, record, year) ==
    LET amountColumn   == FindNamed(columns, AmountColumnNames)
        conceptColumn  == FindNamed(columns, ConceptColumnNames)
        categoryColumn == FindNamed(columns, CategoryColumnNames)
        amount   == ParseAmount(AmountText(header, columns, record, amountColumn))
        concept  == IF conceptColumn # "" THEN Cell(header, record, conceptColumn) ELSE ""
        category == CategoryOf(header, record, categoryColumn, concept)
        type     == MapConceptToType(concept, category)
    IN  IF LeZero(amount) THEN <<>>
        ELSE IF type # "" THEN <<Item(year, category, type, amount, concept)>>
        ELSE <<>>

NormalizeCSVData(csvRecords, year) ==
    IF csvRecords.rows = <<>> THEN <<>>
    ELSE Pushed([i \in 1..Len(csvRecords.rows) |->
                    NormalizeRecord(csvRecords.header, ObjectKeys(csvRecords.header),
                                    csvRecords.rows[i], year)])

----------------------------------------------------------------------------
(* The summary route: aggregation and the hardcoded dataset *)

Entry(id, total) == [_id |-> id, total |-> total]

\* a variant of the reduce step that never looks for an existing entry
AddToEntries_AlwaysAppend(acc, item) == Append(acc, Entry(item.type, item.amount))

\* one step of the reduce: add to the entry of the item's type, or append one
AddToEntries(acc, item) ==
    IF \E i \in 1..Len(acc) : acc[i]._id = item.type
    THEN LET i == CHOOSE j \in 1..Len(acc) :
                    acc[j]._id = item.type /\ \A k \in 1..(j - 1) : acc[k]._id # item.type
         IN  [acc EXCEPT ![i].total = Add(acc[i].total, item.amount)]
    ELSE Append(acc, Entry(item.type, item.amount))

\* realData.filter(item => item.category === category).reduce(..., [])
GroupByType(items, category) ==
    LET ofCategory == SelectSeq(items, LAMBDA item : item.category = category)
        upTo[i \in 0..Len(ofCategory)] ==
            IF i = 0 THEN <<>> ELSE AddToEntries(upTo[i - 1], ofCategory[i])
    IN  upTo[Len(ofCategory)]

\* entries.reduce((sum, item) => sum + item.total, 0)
SumTotals(entries) ==
    LET upTo[i \in 0..Len(entries)] ==
            IF i = 0 THEN Zero ELSE Add(upTo[i - 1], entries[i].total)
    IN  upTo[Len(entries)]

\* a variant with the operands of the balance exchanged
Summary_BalanceReversed(y, incomeItems, spendingItems, dataSource) ==
    [year       |-> y,
     income     |-> [items |-> incomeItems, total |-> SumTotals(incomeItems)],
     spending   |-> [items |-> spendingItems, total |-> SumTotals(spendingItems)],
     balance    |-> Sub(SumTotals(spendingItems), SumTotals(incomeItems)),
     dataSource |-> dataSource]

\* the object both branches of the route send: totals are the sums of the
\* entries, the balance is income less spending
Summary(y, incomeItems, spendingItems, dataSource) ==
    [year       |-> y,
     income     |-> [items |-> incomeItems, total |-> SumTotals(incomeItems)],
     spending   |-> [items |-> spendingItems, total |-> SumTotals(spendingItems)],
     balance    |-> Sub(SumTotals(incomeItems), SumTotals(spendingItems)),
     dataSource |-> dataSource]

RealSummary(y, items) ==
    Summary(y, GroupByType(items, "income"), GroupByType(items, "spending"), "real")

\* amounts in euros: 95000000000 is 95 * 10^9
HardcodedIncomeItems ==
    <<Entry("personal_income_tax", Norm(95, 9)),
      Entry("corporate_tax", Norm(28, 9)),
      Entry("vat", Norm(78, 9)),
      Entry("social_security_contributions", Norm(120, 9)),
      Entry("autonomous_communities_taxes", Norm(45, 9)),
      Entry("eu_funds", Norm(35, 9)),
      Entry("other_revenues", Norm(25, 9))>>

HardcodedSpendingItems ==
    <<Entry("pensions", Norm(140, 9)),
      Entry("social_security", Norm(95, 9)),
      Entry("education", Norm(52, 9)),
      Entry("healthcare", Norm(75, 9)),
      Entry("defense", Norm(12, 9)),
      Entry("infrastructure", Norm(18, 9)),
      Entry("public_administration", Norm(35, 9)),
      Entry("debt_interest", Norm(32, 9)),
      Entry("other_spending", Norm(28, 9))>>

\* a variant whose spending list lacks the healthcare entry
GetHardcodedBudgetData_NoHealthcare(y) ==
    Summary(y, HardcodedIncomeItems,
            SelectSeq(HardcodedSpendingItems, LAMBDA e : e._id # "healthcare"),
            "hardcoded")

GetHardcodedBudgetData(y) ==
    Summary(y, HardcodedIncomeItems, HardcodedSpendingItems, "hardcoded")

\* the body of the route after fetchBudgetData returned
SummaryResponse(y, items) ==
    IF Len(items) > 0
    THEN [status |-> 200, body |-> RealSummary(y, items)]
    ELSE [status |-> 200, body |-> GetHardcodedBudgetData(y)]

----------------------------------------------------------------------------
(* What the request finds: files of the data directory and downloads *)

Years == {2023, 2024}

YearColumnFiles == <<"ingresos.csv", "gastos.csv">>

\* a variant trying the undated names before the names of the year
TraditionalFiles_UndatedFirst(year) ==
    <<"liquidacion.csv", "presupuesto.csv",
      NatToString(year) \o "_liquidacion.csv",
      NatToString(year) \o "_liquidacion_presupuesto.csv",
      NatToString(year) \o "_presupuesto.csv",
      NatToString(year) \o "_gastos.csv",
      NatToString(year) \o "_ingresos.csv">>

\* possibleFiles of readLocalCSV
TraditionalFiles(year) ==
    <<NatToString(year) \o "_liquidacion.csv",
      NatToString(year) \o "_liquidacion_presupuesto.csv",
      NatToString(year) \o "_presupuesto.csv",
      NatToString(year) \o "_gastos.csv",
      NatToString(year) \o "_ingresos.csv",
      "liquidacion.csv", "presupuesto.csv">>

RemoteFiles ==
    <<"liquidacion.csv", "liquidacion_presupuesto.csv", "presupuesto.csv",
      "gastos.csv", "ingresos.csv">>

\* a file tried, in the local directory or on the network
File(from, name) == [from |-> from, name |-> name]

RECURSIVE SeqsOfLen(_, _)
SeqsOfLen(S, n) ==
    IF n = 0 THEN {<<>>}
    ELSE {<<x>> \o t : x \in S, t \in SeqsOfLen(S, n - 1)}

SeqsUpTo(S, n) == UNION {SeqsOfLen(S, k) : k \in 0..n}

\* year-columns layout, as ingresos.csv and gastos.csv are meant to be
YearHeader == <<"Concepto", "2022", "2023", "2024-P">>

\* the cells of the columns 2023 and 2024-P of one line
YearCellPairs ==
    {<<"10.5", "">>, <<"", "10.5">>, <<"10.5", "2">>, <<"-3", "0">>, <<"abc", "$ 4">>}

\* lines of one concept with each pair of cells, and a line of totals
YearRows ==
    {<<"IRPF", "7">> \o cells : cells \in YearCellPairs}
    \cup {<<"Total", "7", "10.5", "2">>}

\* a file of one year only
SingleYearTable == Table(<<"Concepto", "2024">>, << <<"IRPF", "50000.00">> >>)

\* a table of the traditional layout under the name of a year-columns file
MisplacedTraditionalTable ==
    Table(<<"concepto", "importe", "tipo">>, << <<"IRPF", "1.234,56", "ingreso">> >>)

\* what ingresos.csv and gastos.csv may hold
YearTables ==
    {Table(YearHeader, rows) : rows \in SeqsUpTo(YearRows, MaxRecords)}
    \cup {SingleYearTable, MisplacedTraditionalTable}

\* traditional layouts: with a category column, without one, and one whose
\* columns are named as the fields of a line item are
HeaderWithCategory == <<"concepto", "importe", "tipo">>

HeaderNoCategory == <<"descripcion", "valor">>

HeaderItemLike == <<"year", "category", "importe">>

TraditionalRows(header) ==
    IF header = HeaderWithCategory
    THEN {<<"IRPF", a, "ingreso">> : a \in {"1.234,56", "0"}}
         \cup {<<c, "20", "gasto">> : c \in {"Sanidad", "Varios"}}
    ELSE IF header = HeaderNoCategory
    THEN {<<"Impuesto de sociedades", a>> : a \in {"1,234.56", "-20", "abc"}}
         \cup {<<"Pensiones", "20">>}
    ELSE {<<"2024", c, a>> : c \in {"income", "spending"}, a \in {"20"}}

\* a table of the year-columns layout under a traditional name or downloaded
MisplacedYearTable == Table(YearHeader, << <<"IRPF", "7", "10.5", "2">> >>)

\* what a file of a traditional name, or a download, may hold
TraditionalTables ==
    {Table(h, rows) : h \in {HeaderWithCategory},
                      rows \in SeqsUpTo(TraditionalRows(HeaderWithCategory), MaxRecords)}
    \cup {Table(h, rows) : h \in {HeaderNoCategory},
                           rows \in SeqsUpTo(TraditionalRows(HeaderNoCategory), MaxRecords)}
    \cup {Table(h, rows) : h \in {HeaderItemLike},
                           rows \in SeqsUpTo(TraditionalRows(HeaderItemLike), MaxRecords)}
    \cup {MisplacedYearTable}

NoTable == Table(<<>>, <<>>)

Outcome(kind, table) == [kind |-> kind, table |-> table]

\* a local file: missing, unreadable, empty, not parseable, or parsed
LocalOutcomes(tables) ==
    {Outcome(k, NoTable) : k \in {"absent", "readThrows", "emptyContent", "parseThrows"}}
    \cup {Outcome("parsed", t) : t \in tables}

\* a download: an HTTP error status, no response (timeout), a request that
\* could not be made, an empty body, a body that is not parseable, or parsed
RemoteOutcomes(tables) ==
    {Outcome(k, NoTable) : k \in {"httpError", "noResponse", "requestError",
                                  "emptyBody", "parseThrows"}}
    \cup {Outcome("parsed", t) : t \in tables}

----------------------------------------------------------------------------
(* readLocalCSV, fetchHaciendaCSV, fetchBudgetData *)

\* what one loop turn yields: the records kept (none: NoTable), or an
\* exception leaving the loop
Kept(table) == [raised |-> FALSE, caught |-> FALSE, table |-> table]

\* the catch of the loop turn ran: nothing is kept and the loop goes on
Caught == [raised |-> FALSE, caught |-> TRUE, table |-> NoTable]

Raised == [raised |-> TRUE, caught |-> FALSE, table |-> NoTable]

\* a variant without the try/catch around the turn
ReadLocalFile_Uncaught(outcome) ==
    IF outcome.kind \in {"readThrows", "parseThrows"} THEN Raised
    ELSE IF outcome.kind = "parsed" /\ Len(outcome.table.rows) > 0
      THEN Kept(outcome.table)
    ELSE Kept(NoTable)

\* one turn of a loop of readLocalCSV: try { existsSync, readFileSync, parse }
\* catch { log }
ReadLocalFile(outcome) ==
    IF outcome.kind \in {"readThrows", "parseThrows"} THEN Caught
    ELSE IF outcome.kind = "parsed" /\ Len(outcome.table.rows) > 0
      THEN Kept(outcome.table)
    ELSE Kept(NoTable)

\* a variant whose catch throws again when no response came
DownloadFile_NoResponseAborts(outcome) ==
    IF outcome.kind = "noResponse" THEN Raised
    ELSE IF outcome.kind \in {"httpError", "requestError", "parseThrows"} THEN Caught
    ELSE IF outcome.kind = "parsed" /\ Len(outcome.table.rows) > 0
      THEN Kept(outcome.table)
    ELSE Kept(NoTable)

\* one turn of the download loop of fetchHaciendaCSV: try { axios.get, parse }
\* catch { log }
DownloadFile(outcome) ==
    IF outcome.kind \in {"httpError", "noResponse", "requestError", "parseThrows"}
    THEN Caught
    ELSE IF outcome.kind = "parsed" /\ Len(outcome.table.rows) > 0
      THEN Kept(outcome.table)
    ELSE Kept(NoTable)

\* an array of line items, an array of raw records, or the empty array
Data(kind, items, table) == [kind |-> kind, items |-> items, table |-> table]

NoData == Data("none", <<>>, NoTable)

ItemsData(items) == IF items = <<>> THEN NoData ELSE Data("items", items, NoTable)

RawData(table) == IF table.rows = <<>> THEN NoData ELSE Data("raw", <<>>, table)

Length(d) == IF d.kind = "items" THEN Len(d.items) ELSE Len(d.table.rows)

\* d[0].field !== undefined
FirstHas(d, field) ==
    \/ d.kind = "items"
    \/ d.kind = "raw" /\ \E i \in 1..Len(d.table.header) : d.table.header[i] = field

\* d.filter(item => item.year === y): a cell is a text and never === a number
FilterByYear(d, y) ==
    IF d.kind = "items"
    THEN ItemsData(SelectSeq(d.items, LAMBDA item : item.year = y))
    ELSE NoData

\* fetchHaciendaCSV once readLocalCSV returned something
LocalResult(d, y) ==
    IF FirstHas(d, "year")
    THEN IF Length(FilterByYear(d, y)) > 0 THEN FilterByYear(d, y) ELSE d
    ELSE d

\* a variant returning the line items as they came, of whatever year
ProcessedResult_Unfiltered(d, y) == d.items

\* a variant returning the whole dataset when no item is of the year
ProcessedResult_WholeWhenNone(d, y) ==
    IF FilterByYear(d, y).items = <<>> THEN d.items ELSE FilterByYear(d, y).items

\* fetchBudgetData, csvData being line items already: those of the year
ProcessedResult(d, y) == FilterByYear(d, y).items

----------------------------------------------------------------------------
(* The summary request, GET /summary/:year *)

NoResponse == [status |-> 0, body |-> Summary(0, <<>>, <<>>, "none")]

RequestIdle ==
    /\ reqYear = 0
    /\ fileIdx = 0
    /\ yearColumnData = <<>>
    /\ localData = NoData
    /\ csvData = NoData
    /\ normalized = <<>>
    /\ realData = <<>>
    /\ escaped = "none"
    /\ caught = {}
    /\ looked = <<>>
    /\ requested = <<>>
    /\ withRecords = {}
    /\ parsedBy = {}
    /\ response = NoResponse

HarnessIdle ==
    /\ fn = "none"
    /\ input = ""
    /\ output = NaN

Init ==
    /\ pc = "idle"
    /\ RequestIdle
    /\ HarnessIdle

\* the route parses the year and calls fetchBudgetData, which calls
\* fetchHaciendaCSV, which calls readLocalCSV
Request ==
    /\ pc = "idle"
    /\ \E y \in Years : reqYear' = y
    /\ fileIdx' = 1
    /\ pc' = "yearColumns"
    /\ UNCHANGED <<yearColumnData, localData, csvData, normalized, realData, escaped,
                   caught, probeVars, response, harnessVars>>

\* an exception that left fetchHaciendaCSV: the catch of fetchBudgetData
\* logs it and returns []
CaughtByFetchBudgetData ==
    /\ escaped' = "fetchBudgetData"
    /\ realData' = <<>>
    /\ pc' = "respond"
    /\ fileIdx' = 0
    /\ UNCHANGED <<reqYear, yearColumnData, localData, csvData, normalized,
                   caught, response, harnessVars>>

\* processYearColumnsCSV(records, category) of every content a year-columns
\* file can have here, and of no records
ProcessedYearColumns ==
    [category \in {"income", "spending"} |->
        [t \in YearTables \cup {NoTable} |-> ProcessYearColumnsCSV(t, category)]]

\* a table was given to a parser
Parsed(header, parser) == [header |-> header, parser |-> parser]

\* the files tried so far and, of them, those that gave a record
Tried(from, name, r) ==
    /\ IF from = "local"
       THEN looked' = Append(looked, name) /\ UNCHANGED requested
       ELSE requested' = Append(requested, name) /\ UNCHANGED looked
    /\ withRecords' = IF Len(r.table.rows) > 0
                      THEN withRecords \cup {File(from, name)}
                      ELSE withRecords

\* readLocalCSV, first loop: one of ingresos.csv, gastos.csv; after the second,
\* the items gathered are returned, or the second loop starts
ReadYearColumnFile ==
    /\ pc = "yearColumns"
    /\ \E o \in LocalOutcomes(YearTables) :
        LET r        == ReadLocalFile(o)
            filename == YearColumnFiles[fileIdx]
            category == IF Includes(filename, "ingresos") THEN "income" ELSE "spending"
            gathered == yearColumnData \o ProcessedYearColumns[category][r.table]
        IN  /\ Tried("local", filename, r)
            /\ parsedBy' = IF Len(r.table.rows) > 0
                           THEN parsedBy \cup {Parsed(r.table.header, "processYearColumnsCSV")}
                           ELSE parsedBy
            /\ IF r.raised THEN CaughtByFetchBudgetData
               ELSE /\ yearColumnData' = gathered
                    /\ caught' = IF r.caught THEN caught \cup {"readLocalCSV"} ELSE caught
                    /\ IF fileIdx < Len(YearColumnFiles)
                       THEN /\ fileIdx' = fileIdx + 1
                            /\ UNCHANGED <<pc, localData>>
                       ELSE IF Len(gathered) > 0
                       THEN /\ localData' = ItemsData(gathered)
                            /\ pc' = "local"
                            /\ fileIdx' = 0
                       ELSE /\ fileIdx' = 1
                            /\ pc' = "traditional"
                            /\ UNCHANGED localData
                    /\ UNCHANGED <<reqYear, csvData, normalized, realData, escaped,
                                   response, harnessVars>>

\* readLocalCSV, second loop: one of the traditional file names; the first
\* file with a record is returned as it was parsed
ReadTraditionalFile ==
    /\ pc = "traditional"
    /\ \E o \in LocalOutcomes(TraditionalTables) :
        LET r == ReadLocalFile(o)
        IN  /\ Tried("local", TraditionalFiles(reqYear)[fileIdx], r)
            /\ UNCHANGED parsedBy
            /\ IF r.raised THEN CaughtByFetchBudgetData
               ELSE /\ caught' = IF r.caught THEN caught \cup {"readLocalCSV"} ELSE caught
                    /\ IF Len(r.table.rows) > 0
                       THEN /\ localData' = RawData(r.table)
                            /\ pc' = "local"
                            /\ fileIdx' = 0
                       ELSE IF fileIdx < Len(TraditionalFiles(reqYear))
                       THEN /\ fileIdx' = fileIdx + 1
                            /\ UNCHANGED <<pc, localData>>
                       ELSE /\ localData' = NoData
                            /\ pc' = "local"
                            /\ fileIdx' = 0
                    /\ UNCHANGED <<reqYear, yearColumnData, csvData, normalized, realData,
                                   escaped, response, harnessVars>>

\* fetchHaciendaCSV after readLocalCSV: local data is returned, and only
\* without any the download loop starts
FetchHaciendaLocal ==
    /\ pc = "local"
    /\ IF Length(localData) > 0
       THEN /\ csvData' = LocalResult(localData, reqYear)
            /\ pc' = "fetched"
            /\ UNCHANGED fileIdx
       ELSE /\ fileIdx' = 1
            /\ pc' = "download"
            /\ UNCHANGED csvData
    /\ UNCHANGED <<reqYear, yearColumnData, localData, normalized, realData, escaped,
                   caught, probeVars, response, harnessVars>>

\* fetchHaciendaCSV, download loop: one candidate of RemoteFiles; the bodies
\* downloaded hold one record at most
Download ==
    /\ pc = "download"
    /\ \E o \in RemoteOutcomes({t \in TraditionalTables : Len(t.rows) <= 1}) :
        LET r == DownloadFile(o)
        IN  /\ Tried("remote", RemoteFiles[fileIdx], r)
            /\ UNCHANGED parsedBy
            /\ IF r.raised THEN CaughtByFetchBudgetData
               ELSE /\ caught' = IF r.caught THEN caught \cup {"fetchHaciendaCSV"} ELSE caught
                    /\ IF Len(r.table.rows) > 0
                       THEN /\ csvData' = RawData(r.table)
                            /\ pc' = "fetched"
                            /\ fileIdx' = 0
                       ELSE IF fileIdx < Len(RemoteFiles)
                       THEN /\ fileIdx' = fileIdx + 1
                            /\ UNCHANGED <<pc, csvData>>
                       ELSE /\ csvData' = NoData
                            /\ pc' = "fetched"
                            /\ fileIdx' = 0
                    /\ UNCHANGED <<reqYear, yearColumnData, localData, normalized, realData,
                                   escaped, response, harnessVars>>

\* normalizeCSVData(csvData, year) of every content a traditional file or a
\* download can have here
NormalizedTraditional ==
    [year \in Years |-> [t \in TraditionalTables |-> NormalizeCSVData(t, year)]]

\* fetchBudgetData after fetchHaciendaCSV: line items are filtered by year and
\* returned, raw records are normalized and returned when any item results
ProcessCsvData ==
    /\ pc = "fetched"
    /\ IF Length(csvData) > 0
       THEN IF FirstHas(csvData, "year") /\ FirstHas(csvData, "category")
            THEN /\ realData' = ProcessedResult(csvData, reqYear)
                 /\ pc' = "respond"
                 /\ UNCHANGED <<normalized, parsedBy>>
            ELSE /\ normalized' = NormalizedTraditional[reqYear][csvData.table]
                 /\ parsedBy' = parsedBy \cup {Parsed(csvData.table.header,
                                                      "normalizeCSVData")}
                 /\ IF Len(normalized') > 0
                    THEN realData' = normalized' /\ pc' = "respond"
                    ELSE pc' = "datosGob" /\ UNCHANGED realData
       ELSE /\ pc' = "datosGob"
            /\ UNCHANGED <<normalized, realData, parsedBy>>
    /\ UNCHANGED <<reqYear, fileIdx, yearColumnData, localData, csvData, escaped,
                   caught, looked, requested, withRecords, response, harnessVars>>

\* fetchDatosGobES returns [] whether the catalogue answers or the call fails,
\* and fetchBudgetData then returns []
FetchDatosGobES ==
    /\ pc = "datosGob"
    /\ \E o \in {"answered", "failed"} :
        /\ realData' = <<>>
        /\ caught' = IF o = "failed" THEN caught \cup {"fetchDatosGobES"} ELSE caught
    /\ pc' = "respond"
    /\ UNCHANGED <<reqYear, fileIdx, yearColumnData, localData, csvData, normalized,
                   escaped, probeVars, response, harnessVars>>

\* the route answers
Respond ==
    /\ pc = "respond"
    /\ response' = SummaryResponse(reqYear, realData)
    /\ pc' = "done"
    /\ UNCHANGED <<reqYear, fileIdx, yearColumnData, localData, csvData, normalized,
                   realData, escaped, caught, probeVars, harnessVars>>

Next ==
    \/ Request
    \/ ReadYearColumnFile
    \/ ReadTraditionalFile
    \/ FetchHaciendaLocal
    \/ Download
    \/ ProcessCsvData
    \/ FetchDatosGobES
    \/ Respond

Spec == Init /\ [][Next]_vars

----------------------------------------------------------------------------
(* Harness of parseAmount: every text over AmountAlphabet of at most MaxLen  *)
(* characters is given to parseAmount once.                                  *)

AmountAlphabet == {"1", "2", ",", ".", "a", "$"}

RECURSIVE TextsOfLen(_, _)
TextsOfLen(alphabet, n) ==
    IF n = 0 THEN {""}
    ELSE {c \o t : c \in alphabet, t \in TextsOfLen(alphabet, n - 1)}

TextsUpTo(alphabet, n) == UNION {TextsOfLen(alphabet, k) : k \in 0..n}

\* the texts the documentation of parseAmount speaks of
AmountExamples ==
    {"1.234,56", "1,234.56", "1234", "abc", "12,5", "1,234", "1.234", "1.234.567,89",
     "1,234,567.89", "12,5 EUR"}

AmountInit ==
    /\ pc = "input"
    /\ RequestIdle
    /\ fn = "parseAmount"
    /\ input \in TextsUpTo(AmountAlphabet, MaxLen) \cup AmountExamples
    /\ output = NaN

ApplyParseAmount ==
    /\ pc = "input"
    /\ fn = "parseAmount"
    /\ output' = ParseAmount(input)
    /\ pc' = "done"
    /\ UNCHANGED <<fn, input, requestVars>>

AmountNext == ApplyParseAmount

SpecAmount == AmountInit /\ [][AmountNext]_vars

----------------------------------------------------------------------------
(* Harness of mapConceptToType: the keywords of its rules, alone, in         *)
(* capitals and in pairs, and texts no rule knows, are classified once in    *)
(* each category.                                                            *)

\* the rules of mapConceptToType as a table, in the order of its conditions
IncomeRules ==
    <<[keywords |-> {"impuestos directos", "irpf", "renta"},
       type |-> "personal_income_tax"],
      [keywords |-> {"sociedades", "corporativo"}, type |-> "corporate_tax"],
      [keywords |-> {"impuestos indirectos", "iva"}, type |-> "vat"],
      [keywords |-> {"seguridad social", "cotizaciones"},
       type |-> "social_security_contributions"],
      [keywords |-> {"comunidad", "autónoma", "territorial"},
       type |-> "autonomous_communities_taxes"],
      [keywords |-> {"ue", "europa", "fondo europeo"}, type |-> "eu_funds"],
      [keywords |-> {"tasas", "precios", "transferencias", "patrimoniales", "enajenación"},
       type |-> "other_revenues"]>>

SpendingRules ==
    <<[keywords |-> {"pension"}, type |-> "pensions"],
      [keywords |-> {"seguridad social", "sanidad", "salud"}, type |-> "social_security"],
      [keywords |-> {"educación", "educacion"}, type |-> "education"],
      [keywords |-> {"sanidad", "salud"}, type |-> "healthcare"],
      [keywords |-> {"defensa", "militar"}, type |-> "defense"],
      [keywords |-> {"infraestructura", "infraestructuras", "obra pública"},
       type |-> "infrastructure"],
      [keywords |-> {"administración", "administracion", "personal", "bienes y servicios"},
       type |-> "public_administration"],
      [keywords |-> {"interés", "interes", "deuda", "gastos financieros", "deuda pública"},
       type |-> "debt_interest"],
      [keywords |-> {"transferencias", "contingencia", "inversiones", "desempleo",
                     "prestaciones", "servicios sociales"},
       type |-> "other_spending"]>>

RulesOf(category) == IF category = "income" THEN IncomeRules ELSE SpendingRules

CatchAll(category) == IF category = "income" THEN "other_revenues" ELSE "other_spending"

KeywordsOf(category) ==
    UNION {RulesOf(category)[i].keywords : i \in 1..Len(RulesOf(category))}

UpperChar(c) ==
    IF \E i \in 1..Len(LowerChars) : Chr(LowerChars, i) = c
    THEN Chr(UpperChars, CHOOSE i \in 1..Len(LowerChars) : Chr(LowerChars, i) = c)
    ELSE c

RECURSIVE ToUpperCase(_)
ToUpperCase(s) ==
    IF Len(s) = 0 THEN "" ELSE UpperChar(Chr(s, 1)) \o ToUpperCase(Tail(s))

\* texts the documentation of the classifier speaks of, and texts of no rule
ConceptExamples ==
    {"IRPF", "Pensiones contributivas", "xyz-unmatched", "", "Varios",
     "Impuesto sobre el Valor Añadido", "Sanidad", "Comunidad Autónoma"}

ConceptsOf(category) ==
    KeywordsOf(category)
    \cup {ToUpperCase(k) : k \in KeywordsOf(category)}
    \cup {k1 \o " " \o k2 : k1 \in KeywordsOf(category), k2 \in KeywordsOf(category)}
    \cup ConceptExamples

ClassifyInputs ==
    {[concept |-> c, category |-> "income"] : c \in ConceptsOf("income")}
    \cup {[concept |-> c, category |-> "spending"] : c \in ConceptsOf("spending")}

ClassifyInit ==
    /\ pc = "input"
    /\ RequestIdle
    /\ fn = "mapConceptToType"
    /\ input \in ClassifyInputs
    /\ output = ""

ApplyMapConceptToType ==
    /\ pc = "input"
    /\ fn = "mapConceptToType"
    /\ output' = MapConceptToType(input.concept, input.category)
    /\ pc' = "done"
    /\ UNCHANGED <<fn, input, requestVars>>

ClassifyNext == ApplyMapConceptToType

SpecClassify == ClassifyInit /\ [][ClassifyNext]_vars

----------------------------------------------------------------------------
(* Properties of the summary request                                         *)

\* the line items either ingestion path has emitted for this request
Emitted == yearColumnData \o normalized

RECURSIVE TotalAmount(_)
TotalAmount(items) ==
    IF items = <<>> THEN Zero ELSE Add(Head(items).amount, TotalAmount(Tail(items)))

RECURSIVE TotalOfEntries(_)
TotalOfEntries(entries) ==
    IF entries = <<>> THEN Zero ELSE Add(Head(entries).total, TotalOfEntries(Tail(entries)))

IdsOf(entries) == {entries[i]._id : i \in 1..Len(entries)}

OfCategory(items, category) == SelectSeq(items, LAMBDA item : item.category = category)

OfType(items, type) == SelectSeq(items, LAMBDA item : item.type = type)

OfYear(items, y) == SelectSeq(items, LAMBDA item : item.year = y)

\* entries holds one entry for each type among items, and no other; each
\* total is the sum of the amounts of the items of its type
OneEntryPerType(entries, items) ==
    /\ \A i, j \in 1..Len(entries) : entries[i]._id = entries[j]._id => i = j
    /\ IdsOf(entries) = {items[i].type : i \in 1..Len(items)}
    /\ \A i \in 1..Len(entries) :
            entries[i].total = TotalAmount(OfType(items, entries[i]._id))

\* C1: whatever the local files and the downloads do (absent, unreadable,
\* unparseable, empty, failing, timing out), no exception leaves the functions
\* that read them, fetchBudgetData hands a list to the route, and the request
\* ends with status 200 and a summary of the year asked for, never an error.
C1_AlwaysASummary ==
    /\ escaped = "none"
    /\ pc \in {"respond", "done"} => DOMAIN realData = 1..Len(realData)
    /\ pc = "done" =>
        /\ response.status = 200
        /\ response.body.year = reqYear
        /\ response.body.dataSource \in {"real", "hardcoded"}

\* C1 witness: every local file threw, every download failed, the catalogue
\* call failed, and the request was answered
C1_Witness ==
    /\ pc = "done"
    /\ caught = {"readLocalCSV", "fetchHaciendaCSV", "fetchDatosGobES"}
    /\ yearColumnData = <<>>
    /\ csvData = NoData
    /\ response.status = 200

\* C2: when fetchBudgetData returns no item for the year asked for, the summary
\* is the fixed dataset: one entry for each of the 7 income types and each of
\* the 9 spending types, the same entries, totals and balance whatever the
\* year, and dataSource "hardcoded".
C2_BaselineWhenNoItems ==
    pc = "done" /\ realData = <<>> =>
        /\ response.body.dataSource = "hardcoded"
        /\ response.body.income.items = HardcodedIncomeItems
        /\ response.body.spending.items = HardcodedSpendingItems
        /\ Len(response.body.income.items) = Cardinality(IncomeTypes)
        /\ Len(response.body.spending.items) = Cardinality(SpendingTypes)
        /\ Cardinality(IncomeTypes) = 7
        /\ Cardinality(SpendingTypes) = 9
        /\ IdsOf(response.body.income.items) = IncomeTypes
        /\ IdsOf(response.body.spending.items) = SpendingTypes
        /\ response.body.income.total = Norm(426, 9)
        /\ response.body.spending.total = Norm(487, 9)
        /\ response.body.balance = Norm(-61, 9)

\* C2 witness: line items were read, none of them of the year asked for, and
\* the fixed dataset was sent
C2_Witness ==
    /\ pc = "done"
    /\ reqYear = 2023
    /\ yearColumnData # <<>>
    /\ realData = <<>>
    /\ response.body.dataSource = "hardcoded"

\* C3: the summary says "real" exactly when some emitted line item is of the
\* year asked for, and then every entry and every total is made of the emitted
\* items of that year alone.
C3_RealIffItemsOfYear ==
    pc = "done" =>
        /\ response.body.dataSource = "real" <=> OfYear(Emitted, reqYear) # <<>>
        /\ response.body.dataSource = "real" =>
            /\ OneEntryPerType(response.body.income.items,
                               OfCategory(OfYear(Emitted, reqYear), "income"))
            /\ OneEntryPerType(response.body.spending.items,
                               OfCategory(OfYear(Emitted, reqYear), "spending"))
            /\ response.body.income.total
                    = TotalAmount(OfCategory(OfYear(Emitted, reqYear), "income"))
            /\ response.body.spending.total
                    = TotalAmount(OfCategory(OfYear(Emitted, reqYear), "spending"))

\* C3 witness: a "real" summary of 2023 while items of another year were
\* emitted from the same files
C3_Witness ==
    /\ pc = "done"
    /\ reqYear = 2023
    /\ response.body.dataSource = "real"
    /\ \E i \in 1..Len(Emitted) : Emitted[i].year # reqYear

\* C4: of the line items the route aggregates, each category's list has one
\* entry for each type among the items of that category, none twice and none
\* missing, and its total is the sum of the amounts of the items of that
\* category and type; two income/vat items of 100 and 50 give the one entry
\* {vat, 150}.
C4_OneEntryPerType ==
    /\ pc = "done" /\ realData # <<>> =>
        /\ OneEntryPerType(response.body.income.items, OfCategory(realData, "income"))
        /\ OneEntryPerType(response.body.spending.items, OfCategory(realData, "spending"))
    /\ GroupByType(<<Item(2024, "income", "vat", Norm(100, 0), "a"),
                     Item(2024, "income", "vat", Norm(50, 0), "b")>>, "income")
            = <<Entry("vat", Norm(150, 0))>>

\* C4 witness: two of the aggregated items share category and type, and the
\* list of that category has a single entry
C4_Witness ==
    /\ pc = "done"
    /\ \E i, j \in 1..Len(realData) :
        /\ i < j
        /\ realData[i].category = "income"
        /\ realData[j].category = "income"
        /\ realData[i].type = realData[j].type
    /\ Len(response.body.income.items) = 1

\* C5: in every summary sent, real or hardcoded, the total of each category is
\* the sum of the totals of its entries, the balance is the income total less
\* the spending total, and the year is the year asked for.
C5_TotalsAndBalance ==
    pc = "done" =>
        /\ response.body.income.total = TotalOfEntries(response.body.income.items)
        /\ response.body.spending.total = TotalOfEntries(response.body.spending.items)
        /\ response.body.balance
                = Sub(response.body.income.total, response.body.spending.total)
        /\ response.body.year = reqYear

\* C5 witness: a real summary with entries of both categories and a balance
\* that is not zero
C5_Witness ==
    /\ pc = "done"
    /\ response.body.dataSource = "real"
    /\ response.body.income.items # <<>>
    /\ response.body.spending.items # <<>>
    /\ response.body.balance # Zero

\* the type of the first rule of the table, from rule i on, one of whose
\* keywords is part of text; "" when there is none
RECURSIVE FirstMatch(_, _, _)
FirstMatch(rules, text, i) ==
    IF i > Len(rules) THEN ""
    ELSE IF \E k \in rules[i].keywords : Includes(text, k) THEN rules[i].type
    ELSE FirstMatch(rules, text, i + 1)

\* parseAmount of the amount cell of each data line of each raw table
RecordAmounts ==
    [table \in TraditionalTables |->
        [i \in 1..Len(table.rows) |->
            ParseAmount(AmountText(table.header, ObjectKeys(table.header), table.rows[i],
                                   FindNamed(ObjectKeys(table.header), AmountColumnNames)))]]

\* parseAmount of the amount cell of data line i of a raw table
RecordAmount(table, i) == RecordAmounts[table][i]

\* C6: no line item emitted by processYearColumnsCSV or by normalizeCSVData
\* has an amount <= 0: a cell that parses to zero, to a negative number or to
\* no number gives no item.
C6_AmountsPositive ==
    \A i \in 1..Len(Emitted) :
        /\ GtZero(Emitted[i].amount)
        /\ ~LeZero(Emitted[i].amount)

\* C6 witness: of two raw records one had an amount that is not positive, and
\* one item was emitted
C6_Witness ==
    /\ pc = "done"
    /\ csvData.kind = "raw"
    /\ Len(csvData.table.rows) = 2
    /\ LeZero(RecordAmount(csvData.table, 1))
    /\ Len(normalized) = 1

\* C7: every emitted line item has a type, one of the types of its own
\* category (7 for income, 9 for spending), the catch-all of the category when
\* no keyword rule matches its concept; and normalizeCSVData emits an item for
\* every record with a positive amount: none is dropped for lack of a type.
C7_TypeOfOwnCategory ==
    /\ \A i \in 1..Len(Emitted) :
        /\ Emitted[i].type # ""
        /\ Emitted[i].category \in {"income", "spending"}
        /\ Emitted[i].category = "income" => Emitted[i].type \in IncomeTypes
        /\ Emitted[i].category = "spending" => Emitted[i].type \in SpendingTypes
        /\ FirstMatch(RulesOf(Emitted[i].category),
                      ToLowerCase(Emitted[i].description), 1) = ""
                => Emitted[i].type = CatchAll(Emitted[i].category)
    /\ /\ pc \in {"datosGob", "respond", "done"}
       /\ csvData.kind = "raw"
       /\ ~(FirstHas(csvData, "year") /\ FirstHas(csvData, "category"))
       => Len(normalized)
            = Cardinality({i \in 1..Len(csvData.table.rows) :
                                GtZero(RecordAmount(csvData.table, i))})

\* C7 witness: a record whose concept no rule knows was emitted with the
\* catch-all type of its category
C7_Witness ==
    /\ pc = "done"
    /\ \E i \in 1..Len(normalized) :
        /\ normalized[i].description = "Varios"
        /\ normalized[i].category = "spending"
        /\ normalized[i].type = "other_spending"

----------------------------------------------------------------------------
(* Properties of mapConceptToType and parseAmount *)

\* C8: mapConceptToType returns the type of the first rule, in the order of
\* the rule table of the category, one of whose keywords is part of the concept
\* whatever the case of its letters, and the catch-all type of the category
\* when no rule matches; ("IRPF", income) gives personal_income_tax,
\* ("Pensiones contributivas", spending) gives pensions, ("xyz-unmatched",
\* income) gives other_revenues.
C8_FirstRuleWins ==
    /\ pc = "done" /\ fn = "mapConceptToType" =>
        output = IF FirstMatch(RulesOf(input.category), ToLowerCase(input.concept), 1) = ""
                 THEN CatchAll(input.category)
                 ELSE FirstMatch(RulesOf(input.category), ToLowerCase(input.concept), 1)
    /\ pc = "done" /\ fn = "mapConceptToType" =>
        output = MapConceptToType(ToUpperCase(input.concept), input.category)
    /\ MapConceptToType("IRPF", "income") = "personal_income_tax"
    /\ MapConceptToType("Pensiones contributivas", "spending") = "pensions"
    /\ MapConceptToType("xyz-unmatched", "income") = "other_revenues"

\* C8 witness: a concept with a vat keyword ahead of an income tax keyword is
\* given the type of the earlier rule
C8_Witness ==
    /\ pc = "done"
    /\ fn = "mapConceptToType"
    /\ input = [concept |-> "iva renta", category |-> "income"]
    /\ output = "personal_income_tax"

\* s.replace(/c/g, d)
RECURSIVE ReplaceAll(_, _, _)
ReplaceAll(s, c, d) ==
    IF Len(s) = 0 THEN ""
    ELSE (IF Chr(s, 1) = c THEN d ELSE Chr(s, 1)) \o ReplaceAll(Tail(s), c, d)

NumberOrZero(v) == IF v = NaN THEN Zero ELSE v

\* the value of text, decimal being its decimal separator and thousands the
\* separator to take out
ValueWith(text, decimal, thousands) ==
    NumberOrZero(ParseFloat(ReplaceAll(RemoveChars(text, {thousands}), decimal, ".")))

\* C9: of a text with a comma and a period, the separator that occurs last is
\* the decimal separator and every occurrence of the other one is taken out;
\* "1.234,56" and "1,234.56" both give 1234.56, also when a separator occurs
\* several times.
C9_LastSeparatorIsDecimal ==
    /\ /\ pc = "done"
       /\ fn = "parseAmount"
       /\ HasChar(input, ",")
       /\ HasChar(input, ".")
       => output = IF LastIndexOf(input, ",") > LastIndexOf(input, ".")
                   THEN ValueWith(RemoveChars(input, CurrencyAndSpace), ",", ".")
                   ELSE ValueWith(RemoveChars(input, CurrencyAndSpace), ".", ",")
    /\ ParseAmount("1.234,56") = Norm(123456, -2)
    /\ ParseAmount("1,234.56") = Norm(123456, -2)

\* C9 witness: a text with two periods and a comma after them
C9_Witness ==
    /\ pc = "done"
    /\ fn = "parseAmount"
    /\ input = "1.234.567,89"
    /\ output = Norm(123456789, -2)

\* C10: of a text with commas and no period, the comma is the decimal
\* separator exactly when 1 or 2 digits follow it, and otherwise every comma
\* is taken out; "12,5" gives 12.5 and "1,234" gives 1234.
C10_CommaBeforeOneOrTwoDigits ==
    /\ /\ pc = "done"
       /\ fn = "parseAmount"
       /\ HasChar(input, ",")
       /\ ~HasChar(input, ".")
       => output = IF /\ CountChar(RemoveChars(input, CurrencyAndSpace), ",") = 1
                      /\ DigitRun(RemoveChars(input, CurrencyAndSpace),
                                  IndexOf(RemoveChars(input, CurrencyAndSpace), ",") + 2)
                            \in {1, 2}
                   THEN ValueWith(RemoveChars(input, CurrencyAndSpace), ",", ".")
                   ELSE ValueWith(RemoveChars(input, CurrencyAndSpace), ".", ",")
    /\ ParseAmount("12,5") = Norm(125, -1)
    /\ ParseAmount("1,234") = Norm(1234, 0)

----------------------------------------------------------------------------
(* Further properties of parseAmount *)

\* text is a decimal numeral without a fraction: a sign at most, then digits
\* and nothing else
IsWholeNumeral(text) ==
    /\ Len(text) > 0
    /\ IF Chr(text, 1) \in {"+", "-"}
       THEN Len(text) > 1 /\ DigitRun(text, 2) = Len(text) - 1
       ELSE DigitRun(text, 1) = Len(text)

\* C11: of a text without a comma every period is taken out before parsing
\* ("1.234" and "1234" give 1234), and a text that is then no decimal numeral
\* (empty, "abc", digits mixed with other characters) gives 0.
C11_PeriodsRemovedElseZero ==
    /\ /\ pc = "done"
       /\ fn = "parseAmount"
       /\ ~HasChar(input, ",")
       => output = IF IsWholeNumeral(RemoveChars(input, CurrencyAndSpace \cup {"."}))
                   THEN ParseFloat(RemoveChars(input, CurrencyAndSpace \cup {"."}))
                   ELSE Zero
    /\ ParseAmount("1.234") = Norm(1234, 0)
    /\ ParseAmount("1234") = Norm(1234, 0)
    /\ ParseAmount("abc") = Zero
    /\ ParseAmount("") = Zero

----------------------------------------------------------------------------
(* Harness of processYearColumnsCSV: tables of one or two data lines, under  *)
(* three header lines, are processed once in each category.                  *)

\* header lines: plain years, one plain year alone, years with a suffix only
YearHeaders ==
    {<<"Concepto", "2022", "2023", "2024-P">>,
     <<"Concepto", "2024">>,
     <<"Concepto", "2023-P", "2024-P">>}

\* concept cells: empty, blank, the header name, totals, numbers, and labels
\* short, padded, starting like a year, or ordinary
HarnessConcepts ==
    {"", "  ", "Concepto", "Total", "TOTAL ingresos", "123", "12.5", "-5", "UE",
     "2024 plan", "IRPF", " IRPF ", "Impuestos directos"}

\* amount cells: positive, empty, zero, negative, no number, with a currency sign
HarnessCells == {"50000.00", "", "0", "-3", "abc", "$ 4"}

HarnessRows(header) ==
    IF Len(header) = 2
    THEN {<<c, a>> : c \in HarnessConcepts, a \in HarnessCells}
    ELSE IF header[2] = "2022"
    THEN {<<c, "7", a, b>> : c \in HarnessConcepts, a \in HarnessCells, b \in HarnessCells}
    ELSE {<<c, a, b>> : c \in HarnessConcepts, a \in HarnessCells, b \in HarnessCells}

\* a line of totals ahead of a line of its own, under each header
TotalThenLine(header) ==
    IF Len(header) = 2
    THEN << <<"Total", "9">>, <<"IRPF", "4">> >>
    ELSE IF header[2] = "2022"
    THEN << <<"Total", "9", "9", "9">>, <<"IRPF", "7", "4", "">> >>
    ELSE << <<"Total", "9", "9">>, <<"IRPF", "4", "">> >>

HarnessTables ==
    {Table(h, <<>>) : h \in YearHeaders}
    \cup UNION {{Table(h, <<row>>) : row \in HarnessRows(h)} : h \in YearHeaders}
    \cup {Table(h, TotalThenLine(h)) : h \in YearHeaders}

YearInit ==
    /\ pc = "input"
    /\ RequestIdle
    /\ fn = "processYearColumnsCSV"
    /\ input \in {[csvRecords |-> t, category |-> c] :
                    t \in HarnessTables, c \in {"income", "spending"}}
    /\ output = <<>>

ApplyProcessYearColumnsCSV ==
    /\ pc = "input"
    /\ fn = "processYearColumnsCSV"
    /\ output' = ProcessYearColumnsCSV(input.csvRecords, input.category)
    /\ pc' = "done"
    /\ UNCHANGED <<fn, input, requestVars>>

YearNext == ApplyProcessYearColumnsCSV

SpecYear == YearInit /\ [][YearNext]_vars


\* the concept cell of data line i of the table given to the harness, trimmed
ConceptOfLine(i) == Trim(input.csvRecords.rows[i][1])

\* a concept of one of the four kinds the documentation has skipped: empty,
\* the header name, with "total" in any case, purely numeric
IsNoiseConcept(concept, headerName) ==
    \/ concept = ""
    \/ concept = headerName
    \/ Includes(ToLowerCase(concept), "total")
    \/ IsPurelyNumeric(concept)

\* C12: a row of a year-columns table whose concept cell is empty, is the name
\* of the concept column, has "total" in it in any letter case, or is purely
\* numeric, emits no line item for any year column.
C12_NoiseRowsEmitNothing ==
    pc = "done" /\ fn = "processYearColumnsCSV" =>
        \A i \in 1..Len(input.csvRecords.rows) :
            IsNoiseConcept(ConceptOfLine(i), input.csvRecords.header[1]) =>
                /\ \A j \in 1..Len(output) : output[j].description # ConceptOfLine(i)
                /\ Len(input.csvRecords.rows) = 1 => output = <<>>

\* C12 witness: a line "Total" with a positive cell in every year column came
\* ahead of a line of its own, and only the latter gave an item
C12_Witness ==
    /\ pc = "done"
    /\ fn = "processYearColumnsCSV"
    /\ input.csvRecords.header = <<"Concepto", "2023-P", "2024-P">>
    /\ Len(input.csvRecords.rows) = 2
    /\ ConceptOfLine(1) = "Total"
    /\ Len(output) = 1
    /\ output[1].description = "IRPF"


\* the cell of a year column holds a number above zero
IsPositiveCell(cell) ==
    /\ ParseFloat(RemoveChars(cell, CurrencyAndSpace)) # NaN
    /\ GtZero(ParseFloat(RemoveChars(cell, CurrencyAndSpace)))

\* the items of the output made from data line i for the year of column k
ItemsOfCell(i, k) ==
    SelectSeq(output,
              LAMBDA item : /\ item.description = ConceptOfLine(i)
                            /\ item.year = ParseInt(BeforeDash(input.csvRecords.header[k])))

\* C13: a row of a year-columns table that none of the four skip rules takes
\* out emits exactly one line item for each year column (a header of four
\* digits, with a suffix or without) whose cell holds a number above zero, and
\* none for the other year columns, whatever the length of the concept and
\* whatever it starts with.
C13_OneItemPerPositiveCell ==
    pc = "done" /\ fn = "processYearColumnsCSV" =>
        \A i \in 1..Len(input.csvRecords.rows) :
            ~IsNoiseConcept(ConceptOfLine(i), input.csvRecords.header[1]) =>
                \A k \in 2..Len(input.csvRecords.header) :
                    IsYearColumn(input.csvRecords.header[k]) =>
                        Len(ItemsOfCell(i, k))
                            = IF IsPositiveCell(input.csvRecords.rows[i][k]) THEN 1 ELSE 0


\* item was made from the cell of data line i under year column k
MadeFromCell(item, i, k) ==
    /\ IsYearColumn(input.csvRecords.header[k])
    /\ item.description = ConceptOfLine(i)
    /\ item.year = ParseInt(BeforeDash(input.csvRecords.header[k]))
    /\ item.amount
         = Scale10(ParseFloat(RemoveChars(input.csvRecords.rows[i][k], CurrencyAndSpace)), 6)

\* every item of the output carries the year of a year column and the value of
\* its cell times 1,000,000
AmountsInMillions ==
    \A n \in 1..Len(output) :
        \E i \in 1..Len(input.csvRecords.rows), k \in 2..Len(input.csvRecords.header) :
            MadeFromCell(output[n], i, k)

\* the table whose only row is "Impuestos directos" with 2024 = "50000.00"
DirectTaxes2024 ==
    Table(<<"Concepto", "2024">>, << <<"Impuestos directos", "50000.00">> >>)

\* C14: in the year-columns path the amount of each emitted item is the decimal
\* value of its cell times 1,000,000 and its year is the four-digit year of the
\* column header; the row "Impuestos directos" with 2024 = "50000.00" of the
\* income file yields exactly one item: year 2024, category income, type
\* personal_income_tax, amount 50000000000.
C14_CellTimesOneMillion ==
    pc = "done" /\ fn = "processYearColumnsCSV" =>
        /\ AmountsInMillions
        /\ input = [csvRecords |-> DirectTaxes2024, category |-> "income"] =>
               /\ Len(output) = 1
               /\ output[1].year = 2024
               /\ output[1].category = "income"
               /\ output[1].type = "personal_income_tax"
               /\ output[1].amount = Norm(5, 10)


----------------------------------------------------------------------------
(* Properties of the search for a source: readLocalCSV and fetchHaciendaCSV *)

\* the local files tried that parsed into at least one record
LocalWithRecords == {f \in withRecords : f.from = "local"}

\* C15: within one request the network is probed only after both local
\* passes have yielded nothing: whenever a local file, of the year-columns
\* names or of the traditional names, produced at least one record, no file is
\* requested from the network.
C15_NoRequestAfterLocalRecords ==
    LocalWithRecords # {} => requested = <<>>

\* the names of the second loop among the names tried
TraditionalLooked ==
    SelectSeq(looked, LAMBDA name : \A i \in 1..Len(YearColumnFiles) :
                                        name # YearColumnFiles[i])

\* C16: if ingresos.csv or gastos.csv is found in the local directory and
\* parses, the first local pass wins outright: no traditional file name is
\* read and nothing is requested from the network in that request.
C16_YearColumnsWinOutright ==
    (\E f \in LocalWithRecords : \E i \in 1..Len(YearColumnFiles) :
                                     f.name = YearColumnFiles[i])
        => TraditionalLooked = <<>> /\ requested = <<>>


\* the traditional file names in the order of their priority, for the years
\* of the model
PriorityOrder(year) ==
    IF year = 2024
    THEN <<"2024_liquidacion.csv", "2024_liquidacion_presupuesto.csv",
           "2024_presupuesto.csv", "2024_gastos.csv", "2024_ingresos.csv",
           "liquidacion.csv", "presupuesto.csv">>
    ELSE <<"2023_liquidacion.csv", "2023_liquidacion_presupuesto.csv",
           "2023_presupuesto.csv", "2023_gastos.csv", "2023_ingresos.csv",
           "liquidacion.csv", "presupuesto.csv">>

IsPrefix(s, t) == Len(s) <= Len(t) /\ s = SubSeq(t, 1, Len(s))

Last(s) == s[Len(s)]

\* the second loop of readLocalCSV ran and is over
SecondPassOver == TraditionalLooked # <<>> /\ pc # "traditional"

\* C17: when the second local pass runs, the records returned are those of
\* the first file, in the order <year>_liquidacion.csv,
\* <year>_liquidacion_presupuesto.csv, <year>_presupuesto.csv,
\* <year>_gastos.csv, <year>_ingresos.csv, liquidacion.csv, presupuesto.csv,
\* that exists and parses into at least one record; a file that is missing,
\* empty or throws while being read is passed over and hides no file after it.
C17_FirstTraditionalFileWithRecords ==
    /\ IsPrefix(TraditionalLooked, PriorityOrder(reqYear))
    /\ \A i \in 1..(Len(TraditionalLooked) - 1) :
           File("local", TraditionalLooked[i]) \notin withRecords
    /\ SecondPassOver =>
           IF File("local", Last(TraditionalLooked)) \in withRecords
           THEN localData.kind = "raw" /\ Length(localData) >= 1
           ELSE /\ TraditionalLooked = PriorityOrder(reqYear)
                /\ localData = NoData

\* a catch of readLocalCSV has run, two traditional files were passed over
\* and the third one gave the two records returned
C17_Witness ==
    /\ pc = "local"
    /\ reqYear = 2024
    /\ TraditionalLooked = SubSeq(PriorityOrder(2024), 1, 3)
    /\ File("local", "2024_presupuesto.csv") \in withRecords
    /\ "readLocalCSV" \in caught
    /\ Length(localData) = 2


\* the download loop of fetchHaciendaCSV ran and is over
DownloadOver == requested # <<>> /\ pc # "download"

\* C18: the network fallback requests the candidates in the order
\* liquidacion.csv, liquidacion_presupuesto.csv, presupuesto.csv, gastos.csv,
\* ingresos.csv, each at most once in a request; a request that fails in any
\* way (HTTP error, timeout, no response, unparseable or empty body) is
\* followed by the next candidate and does not end the loop; and the loop
\* stops at the first candidate that parses into at least one record, so that
\* no later candidate is requested.
C18_CandidatesInOrderUntilRecords ==
    /\ IsPrefix(requested, <<"liquidacion.csv", "liquidacion_presupuesto.csv",
                             "presupuesto.csv", "gastos.csv", "ingresos.csv">>)
    /\ \A i \in 1..(Len(requested) - 1) :
           File("remote", requested[i]) \notin withRecords
    /\ DownloadOver =>
           IF File("remote", Last(requested)) \in withRecords
           THEN csvData.kind = "raw" /\ Length(csvData) >= 1
           ELSE Len(requested) = 5 /\ csvData = NoData

\* after requests that failed, one of them caught as an exception, the fourth
\* candidate gave the records returned and the fifth was not requested
C18_Witness ==
    /\ pc = "fetched"
    /\ Len(requested) = 4
    /\ File("remote", "gastos.csv") \in withRecords
    /\ "fetchHaciendaCSV" \in caught
    /\ Length(csvData) = 1


----------------------------------------------------------------------------
(* Line items of the year-columns files, none of the year asked for *)

\* ingresos.csv and gastos.csv gave line items, none of the year asked for
NoneOfTheYear == yearColumnData # <<>> /\ OfYear(yearColumnData, reqYear) = <<>>

\* C19, as stated: when the local year-columns files yield line items but
\* none of them is of the year asked for, the request is answered from the
\* whole dataset of the other years and not from the fixed dataset.
C19_AnsweredFromWholeDataset ==
    pc = "done" /\ NoneOfTheYear =>
        response.body = RealSummary(reqYear, yearColumnData)

\* C19, amended: when the local year-columns files yield line items but none
\* of them is of the year asked for, fetchHaciendaCSV hands the whole dataset
\* to fetchBudgetData, which filters it by the year again and returns no item,
\* and the request is answered from the fixed dataset, marked "hardcoded".
C19_AnsweredFromBaseline ==
    NoneOfTheYear =>
        /\ pc \in {"fetched", "respond", "done"} => csvData = ItemsData(yearColumnData)
        /\ pc \in {"respond", "done"} => realData = <<>>
        /\ pc = "done" => response.body = GetHardcodedBudgetData(reqYear)

\* items of 2024 alone were read for a request of 2023, handed on whole, and
\* the fixed dataset was sent
C19_Witness ==
    /\ pc = "done"
    /\ reqYear = 2023
    /\ NoneOfTheYear
    /\ OfYear(csvData.items, 2024) # <<>>
    /\ response.body = GetHardcodedBudgetData(2023)


----------------------------------------------------------------------------
(* Harness of normalizeCSVData: tables of one record, and of two, under     *)
(* header lines with a category column, without one, and without a concept  *)
(* column, are given to normalizeCSVData once.                               *)

NormalizeConcepts ==
    {"Impuesto de sociedades", "IMPUESTOS", "Ingresos varios", "Tributos locales",
     "Tax revenue", "Pensiones", "IRPF", "Gastos", "g", ""}

\* the records under a header line of three columns (concept, amount,
\* category), of two (concept, amount) and of one (amount)
NormalizeRows(header) ==
    IF Len(header) = 3
    THEN {<<c, a, k>> : c \in NormalizeConcepts, a \in {"20", "0", "abc", "1.234,56"},
                        k \in {"ingreso", "gasto", "Gastos corrientes", "G", "I", "",
                               "otros", "spending", "Expense", "INGRESOS"}}
    ELSE IF Len(header) = 2
    THEN {<<c, a>> : c \in NormalizeConcepts, a \in {"20", "0", "abc", "1.234,56"}}
    ELSE {<<a>> : a \in {"20", "0", "abc", "1.234,56"}}

NormalizeTables ==
    {Table(h, <<r>>) : h \in {<<"descripcion", "valor">>},
                       r \in NormalizeRows(<<"descripcion", "valor">>)}
    \cup {Table(h, <<r>>) : h \in {<<"Concepto", "Importe", "Tipo">>},
                            r \in NormalizeRows(<<"Concepto", "Importe", "Tipo">>)}
    \cup {Table(h, <<r>>) : h \in {<<"valor">>}, r \in NormalizeRows(<<"valor">>)}
    \cup {Table(h, <<r>>) : h \in {<<"tipo", "importe">>},
                            r \in NormalizeRows(<<"tipo", "importe">>)}
    \cup {Table(<<"descripcion", "valor">>, <<<<"Pensiones", "20">>, <<c, "20">>>>) :
              c \in NormalizeConcepts}
    \cup {Table(<<"Concepto", "Importe", "Tipo">>,
                <<<<"IRPF", "20", "ingreso">>, <<c, "20", "gasto">>>>) :
              c \in NormalizeConcepts}
    \cup {Table(<<"descripcion", "valor">>, <<<<c, a>>, <<"Sanidad", "20">>>>) :
              c \in {"Pensiones", ""}, a \in {"2a", "abc", "", "20"}}
    \cup {Table(<<"descripcion", "monto">>, <<<<c, a>>>>) :
              c \in {"Pensiones", "Seguridad Social, pensiones", "Plan 2024",
                     "S.A. Correos", "2024 plan", ""},
              a \in {"20", "0", "abc"}}

NormalizeInit ==
    /\ pc = "input"
    /\ RequestIdle
    /\ fn = "normalizeCSVData"
    /\ input \in {[csvRecords |-> t, year |-> y] : t \in NormalizeTables, y \in Years}
    /\ output = <<>>

ApplyNormalizeCSVData ==
    /\ pc = "input"
    /\ fn = "normalizeCSVData"
    /\ output' = NormalizeCSVData(input.csvRecords, input.year)
    /\ pc' = "done"
    /\ UNCHANGED <<requestVars, fn, input>>

NormalizeNext == ApplyNormalizeCSVData

SpecNormalize == NormalizeInit /\ [][NormalizeNext]_vars


\* the column of the header the category is read from, "" if there is none
CategoryColumnOf(header) == FindNamed(ObjectKeys(header), CategoryColumnNames)

\* the concept names an income, in whatever letter case
IncomeWordIn(concept) ==
    \E word \in {"ingreso", "revenue", "impuesto", "tributo"} :
        Includes(ToLowerCase(concept), word)

\* what the category column says of a record
ColumnCategory(cell) ==
    IF \E word \in {"ingreso", "revenue", "income", "i"} : Includes(ToLowerCase(cell), word)
    THEN "income"
    ELSE "spending"

\* the records of the input whose concept the item carries
LinesOf(item) ==
    {i \in 1..Len(input.csvRecords.rows) :
        LET header == input.csvRecords.header
            column == FindNamed(ObjectKeys(header), ConceptColumnNames)
        IN  item.description
              = IF column = "" THEN "" ELSE Cell(header, input.csvRecords.rows[i], column)}

\* C20: in the traditional path, when no column of the table resolves as a
\* category column the category of each record is "spending", unless its
\* concept contains one of ingreso, revenue, impuesto, tributo and it is
\* "income"; when a category column did resolve the category is the one the
\* column gives and the concept is not looked at.
C20_CategoryInferredOnlyWithoutColumn ==
    pc = "done" /\ fn = "normalizeCSVData" =>
        \A n \in 1..Len(output) :
            IF CategoryColumnOf(input.csvRecords.header) = ""
            THEN output[n].category
                    = IF IncomeWordIn(output[n].description) THEN "income" ELSE "spending"
            ELSE \E i \in LinesOf(output[n]) :
                    output[n].category
                      = ColumnCategory(Cell(input.csvRecords.header, input.csvRecords.rows[i],
                                            CategoryColumnOf(input.csvRecords.header)))

\* a table without category column gave a spending item by default and an
\* income item for its concept
C20_Witness ==
    /\ pc = "done"
    /\ fn = "normalizeCSVData"
    /\ input.csvRecords.header = <<"descripcion", "valor">>
    /\ Len(output) = 2
    /\ output[1].description = "Pensiones" /\ output[1].category = "spending"
    /\ output[2].description = "Impuesto de sociedades" /\ output[2].category = "income"


----------------------------------------------------------------------------
(* Further properties of normalizeCSVData *)

\* the text is a number: digits, with periods or commas among them
IsNumberText(text) ==
    /\ \E i \in 1..Len(text) : IsDigit(Chr(text, i))
    /\ \A i \in 1..Len(text) : IsDigit(Chr(text, i)) \/ Chr(text, i) \in {".", ","}

\* the columns of the input, in their order, whose cell of data line i is a
\* number
NumberColumns(i) ==
    SelectSeq([k \in 1..Len(input.csvRecords.header) |-> k],
              LAMBDA k : IsNumberText(input.csvRecords.rows[i][k]))

\* C21: in the traditional path, when no column name is one of the amount
\* names, the amount of each record is taken from the first column, in column
\* order, whose cell is a number: a record with a positive number in some
\* column yields a line item of that amount even when a text column comes
\* before it.
C21_AmountFromFirstNumberColumn ==
    /\ pc = "done" /\ fn = "normalizeCSVData"
    /\ FindNamed(ObjectKeys(input.csvRecords.header), AmountColumnNames) = ""
    /\ Len(input.csvRecords.rows) = 1
    /\ NumberColumns(1) # <<>>
    /\ GtZero(ParseAmount(input.csvRecords.rows[1][NumberColumns(1)[1]]))
    => /\ Len(output) = 1
       /\ output[1].amount = ParseAmount(input.csvRecords.rows[1][NumberColumns(1)[1]])


\* the amount text of data line i of the input, an amount column being named
AmountTextOfLine(i) ==
    Cell(input.csvRecords.header, input.csvRecords.rows[i],
         FindNamed(ObjectKeys(input.csvRecords.header), AmountColumnNames))

\* data line i has a malformed amount text or a missing field
IsBadLine(i) ==
    \/ ~IsNumberText(AmountTextOfLine(i))
    \/ \E k \in 1..Len(input.csvRecords.header) : input.csvRecords.rows[i][k] = ""

\* the input without its bad lines
GoodLines ==
    Table(input.csvRecords.header,
          SelectSeq(input.csvRecords.rows,
                    LAMBDA row : \E i \in 1..Len(input.csvRecords.rows) :
                                    row = input.csvRecords.rows[i] /\ ~IsBadLine(i)))

\* C22: in the traditional path a record whose amount text is malformed or
\* one of whose fields is missing emits no line item, nothing is thrown, and
\* the line items of the other records of the table are those the table
\* without the bad record gives.
C22_BadRecordsSkipped ==
    /\ pc = "done" /\ fn = "normalizeCSVData"
    /\ FindNamed(ObjectKeys(input.csvRecords.header), AmountColumnNames) # ""
    => /\ \A i \in 1..Len(input.csvRecords.rows) :
            IsBadLine(i) /\ Len(input.csvRecords.rows) = 1 => output = <<>>
       /\ output = NormalizeCSVData(GoodLines, input.year)


----------------------------------------------------------------------------
(* Which parser a table is given to *)

\* the first column holds the concepts and every other header is a year
IsYearLayout(header) ==
    /\ Len(header) >= 2
    /\ ~StartsWithFourDigits(header[1])
    /\ \A k \in 2..Len(header) : IsYearColumn(header[k])

\* C23: every parsed table is classified by its layout: a table whose first
\* column holds concept labels and whose other headers are four-digit years
\* is processed by the year-columns parser, and any other table by the
\* traditional field resolver, whichever file name or network candidate it
\* came from.
C23_ParserByLayout ==
    \A p \in parsedBy :
        IF IsYearLayout(p.header)
        THEN p.parser = "processYearColumnsCSV"
        ELSE p.parser = "normalizeCSVData"


----------------------------------------------------------------------------
(* Two summary requests at once.  The sources are fixed: what each local     *)
(* file holds and what each download of each year gives.  readLocalCSV runs  *)
(* without interruption; a request is suspended at each await: axios.get in  *)
(* the download loop, fetchHaciendaCSV and fetchDatosGobES in                *)
(* fetchBudgetData, fetchBudgetData in the route.  In this specification the *)
(* variables of the request hold one value for each of the two requests.     *)

Requests == {1, 2}

\* what ingresos.csv may hold: nothing, items of 2023 and 2024, a file of one
\* year only
SourceYearFiles ==
    {Outcome("absent", NoTable),
     Outcome("parsed", Table(YearHeader, << <<"IRPF", "7", "10.5", "2">> >>)),
     Outcome("parsed", SingleYearTable)}

\* the traditional files of the directory: none, or one file under a name of
\* the year 2024 or under an undated name
SourceTraditionalFiles ==
    {[name \in {} |-> Outcome("absent", NoTable)]}
    \cup {[name \in {n} |-> Outcome(k, Table(HeaderWithCategory,
                                              << <<"IRPF", "1.234,56", "ingreso">> >>))] :
              n \in {"2024_presupuesto.csv", "presupuesto.csv"},
              k \in {"parsed", "readThrows"}}

\* what the downloads give, for each year and candidate: errors only; a body
\* for the third candidate of 2024 alone; no response, then a body, for both
\* years
SourceDownloads ==
    {[y \in Years |-> [i \in 1..Len(RemoteFiles) |-> Outcome("httpError", NoTable)]],
     [y \in Years |-> [i \in 1..Len(RemoteFiles) |->
        IF y = 2024 /\ i = 3
        THEN Outcome("parsed", Table(HeaderNoCategory, << <<"Pensiones", "20">> >>))
        ELSE Outcome("emptyBody", NoTable)]],
     [y \in Years |-> [i \in 1..Len(RemoteFiles) |->
        IF i = 1 THEN Outcome("noResponse", NoTable)
        ELSE Outcome("parsed", Table(HeaderWithCategory, << <<"Sanidad", "20", "gasto">> >>))]]}

Sources ==
    {[ingresos |-> a, traditional |-> t, downloads |-> d] :
        a \in SourceYearFiles, t \in SourceTraditionalFiles, d \in SourceDownloads}

\* the file of that name in the sources
LocalFileOf(sources, name) ==
    IF name \in DOMAIN sources.traditional THEN sources.traditional[name]
    ELSE Outcome("absent", NoTable)

\* readLocalCSV, second loop, from the file name of index i on
RECURSIVE ReadTraditionalFrom(_, _, _)
ReadTraditionalFrom(sources, year, i) ==
    IF i > Len(TraditionalFiles(year)) THEN NoData
    ELSE IF Len(ReadLocalFile(LocalFileOf(sources, TraditionalFiles(year)[i])).table.rows) > 0
    THEN RawData(ReadLocalFile(LocalFileOf(sources, TraditionalFiles(year)[i])).table)
    ELSE ReadTraditionalFrom(sources, year, i + 1)

\* readLocalCSV(year) on these sources; gastos.csv is absent
ReadLocalCSV(sources, year) ==
    IF Len(ProcessedYearColumns["income"][ReadLocalFile(sources.ingresos).table]) > 0
    THEN ItemsData(ProcessedYearColumns["income"][ReadLocalFile(sources.ingresos).table])
    ELSE ReadTraditionalFrom(sources, year, 1)


\* a variant in which the locals are kept once for the module: every request
\* reads those of the first
Own_OfFirstRequest(v, r) == v[1]

\* the locals of a call belong to the call: request r reads its own
Own(v, r) == v[r]

TwoInit ==
    /\ pc = [r \in Requests |-> "idle"]
    /\ reqYear \in [Requests -> Years]
    /\ fileIdx = [r \in Requests |-> 0]
    /\ csvData = [r \in Requests |-> NoData]
    /\ realData = [r \in Requests |-> <<>>]
    /\ requested = [r \in Requests |-> <<>>]
    /\ response = [r \in Requests |-> NoResponse]
    /\ yearColumnData = <<>> /\ localData = NoData /\ normalized = <<>>
    /\ escaped = "none" /\ caught = {} /\ looked = <<>>
    /\ withRecords = {} /\ parsedBy = {}
    /\ fn = "twoRequests"
    /\ input \in Sources
    /\ output = <<>>

\* the variables no request of this specification writes
TwoUnused == <<yearColumnData, localData, normalized, escaped, caught, looked,
               withRecords, parsedBy, harnessVars>>

\* the route calls fetchBudgetData, fetchHaciendaCSV and readLocalCSV; with
\* local data fetchHaciendaCSV returns, without it the first download starts
StartRequest(r) ==
    /\ pc[r] = "idle"
    /\ IF Length(ReadLocalCSV(input, Own(reqYear, r))) > 0
       THEN /\ csvData' = [csvData EXCEPT ![r] = LocalResult(ReadLocalCSV(input, Own(reqYear, r)),
                                                             Own(reqYear, r))]
            /\ pc' = [pc EXCEPT ![r] = "fetched"]
            /\ UNCHANGED fileIdx
       ELSE /\ fileIdx' = [fileIdx EXCEPT ![r] = 1]
            /\ pc' = [pc EXCEPT ![r] = "download"]
            /\ UNCHANGED csvData
    /\ UNCHANGED <<reqYear, realData, requested, response, TwoUnused>>

\* the download of one candidate has ended: await axios.get
DownloadEnds(r) ==
    /\ pc[r] = "download"
    /\ requested' = [requested EXCEPT ![r] = Append(@, RemoteFiles[fileIdx[r]])]
    /\ LET t == DownloadFile(input.downloads[Own(reqYear, r)][fileIdx[r]]).table
       IN  IF Len(t.rows) > 0
           THEN /\ csvData' = [csvData EXCEPT ![r] = RawData(t)]
                /\ pc' = [pc EXCEPT ![r] = "fetched"]
                /\ fileIdx' = [fileIdx EXCEPT ![r] = 0]
           ELSE IF fileIdx[r] < Len(RemoteFiles)
           THEN /\ fileIdx' = [fileIdx EXCEPT ![r] = fileIdx[r] + 1]
                /\ UNCHANGED <<pc, csvData>>
           ELSE /\ csvData' = [csvData EXCEPT ![r] = NoData]
                /\ pc' = [pc EXCEPT ![r] = "fetched"]
                /\ fileIdx' = [fileIdx EXCEPT ![r] = 0]
    /\ UNCHANGED <<reqYear, realData, response, TwoUnused>>

\* fetchBudgetData goes on after await fetchHaciendaCSV
FetchHaciendaEnds(r) ==
    /\ pc[r] = "fetched"
    /\ IF Length(Own(csvData, r)) > 0
       THEN IF FirstHas(Own(csvData, r), "year") /\ FirstHas(Own(csvData, r), "category")
            THEN /\ realData' = [realData EXCEPT
                                    ![r] = ProcessedResult(Own(csvData, r), Own(reqYear, r))]
                 /\ pc' = [pc EXCEPT ![r] = "respond"]
            ELSE IF Len(NormalizedTraditional[Own(reqYear, r)][Own(csvData, r).table]) > 0
            THEN /\ realData' = [realData EXCEPT
                                    ![r] = NormalizedTraditional[Own(reqYear, r)]
                                                                [Own(csvData, r).table]]
                 /\ pc' = [pc EXCEPT ![r] = "respond"]
            ELSE /\ pc' = [pc EXCEPT ![r] = "datosGob"]
                 /\ UNCHANGED realData
       ELSE /\ pc' = [pc EXCEPT ![r] = "datosGob"]
            /\ UNCHANGED realData
    /\ UNCHANGED <<reqYear, fileIdx, csvData, requested, response, TwoUnused>>

\* fetchBudgetData goes on after await fetchDatosGobES, which gave []
FetchDatosGobEnds(r) ==
    /\ pc[r] = "datosGob"
    /\ realData' = [realData EXCEPT ![r] = <<>>]
    /\ pc' = [pc EXCEPT ![r] = "respond"]
    /\ UNCHANGED <<reqYear, fileIdx, csvData, requested, response, TwoUnused>>

\* the route goes on after await fetchBudgetData and answers
RespondTo(r) ==
    /\ pc[r] = "respond"
    /\ response' = [response EXCEPT
                        ![r] = SummaryResponse(Own(reqYear, r), Own(realData, r))]
    /\ pc' = [pc EXCEPT ![r] = "done"]
    /\ UNCHANGED <<reqYear, fileIdx, csvData, realData, requested, TwoUnused>>

TwoNext ==
    \E r \in Requests :
        \/ StartRequest(r)
        \/ DownloadEnds(r)
        \/ FetchHaciendaEnds(r)
        \/ FetchDatosGobEnds(r)
        \/ RespondTo(r)

SpecTwo == TwoInit /\ [][TwoNext]_vars


\* One request run alone against the sources, from start to answer with no
\* other request in between.
RECURSIVE DownloadAlone(_, _, _)
DownloadAlone(sources, year, i) ==
    LET t == DownloadFile(sources.downloads[year][i]).table
    IN  IF Len(t.rows) > 0
        THEN [data |-> RawData(t), requested |-> <<RemoteFiles[i]>>]
        ELSE IF i < Len(RemoteFiles)
        THEN LET rest == DownloadAlone(sources, year, i + 1)
             IN  [data |-> rest.data, requested |-> <<RemoteFiles[i]>> \o rest.requested]
        ELSE [data |-> NoData, requested |-> <<RemoteFiles[i]>>]

HaciendaAlone(sources, year) ==
    IF Length(ReadLocalCSV(sources, year)) > 0
    THEN [data |-> LocalResult(ReadLocalCSV(sources, year), year), requested |-> <<>>]
    ELSE DownloadAlone(sources, year, 1)

BudgetDataAlone(data, year) ==
    IF Length(data) = 0 THEN <<>>
    ELSE IF FirstHas(data, "year") /\ FirstHas(data, "category")
    THEN ProcessedResult(data, year)
    ELSE NormalizedTraditional[year][data.table]

SummaryAlone(sources, year) ==
    SummaryResponse(year, BudgetDataAlone(HaciendaAlone(sources, year).data, year))

\* C24: of two summary requests running at once, for equal or different years,
\* each answers exactly the summary it would answer run alone against the same
\* sources, and each runs the whole pipeline itself: it asks for the same
\* remote candidates as it would alone, whatever the other has already fetched.
C24_EachAsIfAlone ==
    fn = "twoRequests" =>
        \A r \in Requests :
            pc[r] = "done" =>
                /\ response[r] = SummaryAlone(input, reqYear[r])
                /\ requested[r] = HaciendaAlone(input, reqYear[r]).requested

\* the first request answered real data of its downloads while the second,
\* of the other year, was between two downloads
C24_Witness ==
    /\ fn = "twoRequests"
    /\ pc[1] = "done" /\ response[1].body.dataSource = "real" /\ Len(requested[1]) = 3
    /\ pc[2] = "download" /\ fileIdx[2] = 2
    /\ reqYear[1] # reqYear[2]

\* both requests of the same year answered after downloading, each on its own
C24_WitnessSameYear ==
    /\ fn = "twoRequests"
    /\ pc[1] = "done" /\ pc[2] = "done" /\ reqYear[1] = reqYear[2]
    /\ Len(requested[1]) > 0 /\ requested[2] = requested[1]
    /\ response[1].body.dataSource = "real" /\ response[2] = response[1]


----------------------------------------------------------------------------
(* The file names of the data directory's README *)

\* "Nombres de archivos soportados", in the order of priority of the README
ReadmeFiles ==
    <<"ingresos.csv", "gastos.csv", "gastos_politicas.csv", "gastos_programas.csv",
      "gastos_subsectores.csv", "transferencias.csv", "transferencias_corrientes.csv",
      "transferencias_inversiones.csv">>

\* the names of the README among the names tried, in the order tried
ReadmeLooked ==
    SelectSeq(looked, LAMBDA name : \E i \in 1..Len(ReadmeFiles) : name = ReadmeFiles[i])

\* C25: the local search looks for every file name the README of the data
\* directory lists as supported, in the order listed: when it ends without a
\* record, each of ingresos.csv, gastos.csv, gastos_politicas.csv,
\* gastos_programas.csv, gastos_subsectores.csv, transferencias.csv,
\* transferencias_corrientes.csv, transferencias_inversiones.csv has been tried,
\* so that a directory holding only one of them yields its records.
C25_ReadmeFilesLookedFor ==
    pc = "local" /\ localData = NoData => ReadmeLooked = ReadmeFiles


\* the category cell names spending, in whatever letter case
SpendingWordIn(cell) ==
    \E word \in {"gasto", "spending", "expense"} : Includes(ToLowerCase(cell), word)

\* the category cell names income, in whatever letter case
IncomeNamedIn(cell) ==
    \E word \in {"ingreso", "revenue", "income"} : Includes(ToLowerCase(cell), word)

\* the category cell of data line i
CategoryCell(i) ==
    Cell(input.csvRecords.header, input.csvRecords.rows[i],
         CategoryColumnOf(input.csvRecords.header))

\* C26: in the traditional path, when a category column resolves, the item of
\* a record whose category cell contains gasto, spending or expense, in any
\* letter case, has the category "spending", and the item of a record whose
\* cell contains ingreso, revenue or income has the category "income": no cell
\* naming spending is labelled income.
C26_CategoryNamedByCell ==
    pc = "done" /\ fn = "normalizeCSVData"
    /\ CategoryColumnOf(input.csvRecords.header) # "" =>
        \A n \in 1..Len(output) :
            \E i \in LinesOf(output[n]) :
                IF SpendingWordIn(CategoryCell(i)) THEN output[n].category = "spending"
                ELSE IncomeNamedIn(CategoryCell(i)) => output[n].category = "income"


----------------------------------------------------------------------------
(* Raw records and line items: the field checks of fetchHaciendaCSV and
   fetchBudgetData *)

\* C27: the raw records of a file of a traditional name, or of a download,
\* always go through normalizeCSVData before the summary is made, whatever the
\* names of their columns: the checks of the fields year and category never
\* take a raw table for line items, and a table whose records normalize into
\* line items is never answered with the baseline dataset.
C27_RawRecordsNormalized ==
    pc = "done" /\ csvData.kind = "raw" =>
        /\ Parsed(csvData.table.header, "normalizeCSVData") \in parsedBy
        /\ NormalizedTraditional[reqYear][csvData.table] # <<>> =>
               response.body.dataSource = "real"


----------------------------------------------------------------------------
(* The years request, GET /years *)

\* the header lines of ingresos.csv and gastos.csv
YearsHeaders ==
    {YearHeader, <<"Concepto", "2023", "2024-E">>, <<"Concepto", "2023", "20245">>,
     <<"2022", "2023", "2024">>, <<"Concepto", "2024", "2024-P">>,
     <<"concepto", "importe", "tipo">>}

\* the files with a header line alone and with one record
YearsTables ==
    {Table(h, rows) : h \in YearsHeaders,
                      rows \in {<<>>, <<[i \in 1..3 |-> IF i = 1 THEN "IRPF" ELSE "7"]>>}}

\* mongoose.connection.readyState === 1, and what BudgetItem.distinct('year')
\* settles with
StoreStates ==
    {[connected |-> FALSE, rejects |-> FALSE, years |-> <<>>],
     [connected |-> TRUE, rejects |-> TRUE, years |-> <<>>]}
    \cup {[connected |-> TRUE, rejects |-> FALSE, years |-> y] :
              y \in {<<>>, <<2024>>, <<2021, 2024, 2022>>}}

\* a variant sorting with (a, b) => a - b
RECURSIVE SortDescending_Ascending(_)
SortDescending_Ascending(years) ==
    IF years = {} THEN <<>>
    ELSE LET least == CHOOSE y \in years : \A o \in years : y <= o
         IN  <<least>> \o SortDescending_Ascending(years \ {least})

\* Array.from(yearsSet).sort((a, b) => b - a), years.sort((a, b) => b - a)
RECURSIVE SortDescending(_)
SortDescending(years) ==
    IF years = {} THEN <<>>
    ELSE LET greatest == CHOOSE y \in years : \A o \in years : y >= o
         IN  <<greatest>> \o SortDescending(years \ {greatest})

\* columns.slice(1).forEach: the years of the columns matching /^(\d{4})/
YearsOfColumns(columns) ==
    {ParseInt(Slice(Tail(columns)[i], 1, 4)) :
        i \in {j \in 1..Len(Tail(columns)) : StartsWithFourDigits(Tail(columns)[j])}}

\* one turn of the loop over ingresos.csv and gastos.csv: try { existsSync,
\* readFileSync, parse, yearsSet.add } catch { }
YearsOfFile(outcome) ==
    IF outcome.kind = "parsed" /\ Len(outcome.table.rows) > 0
    THEN YearsOfColumns(ObjectKeys(outcome.table.header))
    ELSE {}

YearsSet(files) == YearsOfFile(files.ingresos) \cup YearsOfFile(files.gastos)

HardcodedYears == <<2024, 2023, 2022, 2021, 2020>>

YearsInit ==
    /\ pc = "input"
    /\ RequestIdle
    /\ fn = "years"
    /\ input \in {[ingresos |-> a, gastos |-> b, store |-> s] :
                     a \in LocalOutcomes(YearsTables), b \in LocalOutcomes(YearsTables),
                     s \in StoreStates}
    /\ output = <<>>

\* the route up to its answer or, the store being connected, up to the call of
\* BudgetItem.distinct('year')
GetYears ==
    /\ pc = "input"
    /\ fn = "years"
    /\ IF YearsSet(input) # {}
       THEN output' = SortDescending(YearsSet(input)) /\ pc' = "done"
       ELSE IF input.store.connected
       THEN pc' = "distinct" /\ UNCHANGED output
       ELSE output' = HardcodedYears /\ pc' = "done"
    /\ UNCHANGED <<requestVars, fn, input>>

\* .then(years => ...) of BudgetItem.distinct('year')
DistinctResolves ==
    /\ pc = "distinct"
    /\ ~input.store.rejects
    /\ output' = IF Len(input.store.years) > 0
                 THEN SortDescending({input.store.years[i] : i \in 1..Len(input.store.years)})
                 ELSE HardcodedYears
    /\ pc' = "done"
    /\ UNCHANGED <<requestVars, fn, input>>

\* .catch(() => ...) of BudgetItem.distinct('year')
DistinctRejects ==
    /\ pc = "distinct"
    /\ input.store.rejects
    /\ output' = HardcodedYears
    /\ pc' = "done"
    /\ UNCHANGED <<requestVars, fn, input>>

YearsNext == GetYears \/ DistinctResolves \/ DistinctRejects

SpecYears == YearsInit /\ [][YearsNext]_vars

\* the years of the columns processYearColumnsCSV makes items from
AcceptedYearsOfFile(outcome) ==
    IF outcome.kind = "parsed" /\ Len(outcome.table.rows) > 0
    THEN {ParseInt(BeforeDash(c)) :
            c \in {YearColumnsOf(ObjectKeys(outcome.table.header))[i] :
                     i \in 1..Len(YearColumnsOf(ObjectKeys(outcome.table.header)))}}
    ELSE {}

\* the set of the elements of a list
ElementsOf(list) == {list[i] : i \in 1..Len(list)}

\* C28: the years the years request derives from the header lines of the
\* local ingresos.csv and gastos.csv are exactly the years of the columns
\* processYearColumnsCSV accepts as year columns of the same files: no year is
\* advertised whose column the summary pipeline ignores.
C28_YearsOfAcceptedColumns ==
    pc = "done" /\ fn = "years" /\ YearsSet(input) # {} =>
        ElementsOf(output)
          = AcceptedYearsOfFile(input.ingresos) \cup AcceptedYearsOfFile(input.gastos)

C30_WitnessStore ==
    /\ pc = "done" /\ fn = "years"
    /\ YearsSet(input) = {}
    /\ input.store.years = <<2021, 2024, 2022>>
    /\ output = <<2024, 2022, 2021>>


----------------------------------------------------------------------------
(* The healthcare rule of mapConceptToType *)

\* the concept contains a keyword of the healthcare rule
HealthWordIn(concept) ==
    Includes(ToLowerCase(concept), "sanidad") \/ Includes(ToLowerCase(concept), "salud")

\* C29: mapConceptToType never returns "healthcare"; every spending concept
\* containing sanidad or salud is classified social_security by the earlier
\* rule of social security and health.
C29_HealthIsSocialSecurity ==
    pc = "done" /\ fn = "mapConceptToType" =>
        /\ output # "healthcare"
        /\ input.category = "spending" /\ HealthWordIn(input.concept) =>
               output = "social_security"

\* C29 as amended: mapConceptToType never returns "healthcare"; every spending
\* concept containing sanidad or salud is classified social_security by the
\* earlier rule of social security and health, or pensions when it contains
\* "pension" as well, the rule of pensions coming first.
C29_HealthNeverHealthcare ==
    pc = "done" /\ fn = "mapConceptToType" =>
        /\ output # "healthcare"
        /\ input.category = "spending" /\ HealthWordIn(input.concept) =>
               output = IF Includes(ToLowerCase(input.concept), "pension")
                        THEN "pensions"
                        ELSE "social_security"

\* the concept Sanidad, and no other keyword, was classified social_security
C29_Witness ==
    /\ pc = "done" /\ fn = "mapConceptToType"
    /\ input = [concept |-> "Sanidad", category |-> "spending"]
    /\ output = "social_security"

============================================================================
